---------------------------- MODULE Spec2Model ----------------------------
(***************************************************************************)
(* Pipe notch generator: the geometry kernel (src/core/geometry-engine.ts, *)
(* math-utils.ts) and the DXF service's own contour loop                   *)
(* (src/core/dxf-service.ts).                                              *)
(*                                                                         *)
(* Numbers.  The source computes in IEEE doubles; the model computes in    *)
(* fixed point.  Lengths of PipeParameters are integers in ticks of        *)
(* 1/UnitsPerMm mm.  Inside the kernel a length is held in half ticks (so  *)
(* that d/2 is exact) and a length multiplied by a sine in "fine" units of *)
(* 1/(2*UnitsPerMm*SinScale) mm.  Angles are integers in degrees, so the   *)
(* radian value a is held as a*180/pi.  Math.sin / Math.cos are a table    *)
(* with three decimals.  d1 and d2 are JavaScript values (a number, NaN,   *)
(* +Infinity, -Infinity or undefined), because the kernel's guard is about *)
(* exactly these; the other fields are finite numbers.                     *)
(***************************************************************************)
EXTENDS Integers, Sequences, FiniteSets, TLC

(***************************************************************************)
(* Resolution of the fixed-point arithmetic.                               *)
(***************************************************************************)
UnitsPerMm == 4 * 5          \* ticks per millimetre (0.05 mm)
SinScale   == 10 ^ 3         \* Math.sin / Math.cos of a sample angle
ThetaScale == 10 ^ 6         \* sin / cos / tan of the skew angle, and epsilon
FinePerMm  == 2 * UnitsPerMm * SinScale
TanMax     == 2 * 10 ^ 9     \* Math.tan(pi/2): finite, beyond every quotient

Abs(v) == IF v < 0 THEN -v ELSE v
Sgn(v) == IF v < 0 THEN -1 ELSE IF v > 0 THEN 1 ELSE 0

\* Half ticks of a length given in ticks, fine units of a length in ticks.
Half(v) == 2 * v
Fine(v) == 2 * v * SinScale

(***************************************************************************)
(* Math.sin, Math.cos: three decimals, whole degrees.                      *)
(***************************************************************************)
SinTable ==
  <<   0,   17,   35,   52,   70,   87,  105,  122,  139,  156,  174,  191,  208,
     225,  242,  259,  276,  292,  309,  326,  342,  358,  375,  391,  407,  423,
     438,  454,  469,  485,  500,  515,  530,  545,  559,  574,  588,  602,  616,
     629,  643,  656,  669,  682,  695,  707,  719,  731,  743,  755,  766,  777,
     788,  799,  809,  819,  829,  839,  848,  857,  866,  875,  883,  891,  899,
     906,  914,  921,  927,  934,  940,  946,  951,  956,  961,  966,  970,  974,
     978,  982,  985,  988,  990,  993,  995,  996,  998,  999,  999, 1000, 1000 >>

MathSin(deg) ==
  LET a == deg % 360
  IN  IF a <= 90 THEN SinTable[a + 1]
      ELSE IF a <= 180 THEN SinTable[180 - a + 1]
      ELSE IF a <= 270 THEN -SinTable[a - 180 + 1]
      ELSE -SinTable[360 - a + 1]

MathCos(deg) == MathSin(deg + 90)

\* Math.sqrt on a non-negative fixed-point square: floor of the root.
RECURSIVE SqrtIter(_, _)
SqrtIter(n, x) ==
  LET y == (x + n \div x) \div 2
  IN  IF y >= x THEN x ELSE SqrtIter(n, y)

\* Newton's iteration from a power of two above the root.
MathSqrt(n) ==
  IF n < 2 THEN n
  ELSE SqrtIter(n, IF n < 2 ^ 10 THEN 2 ^ 5
                   ELSE IF n < 2 ^ 20 THEN 2 ^ 10
                   ELSE IF n < 2 ^ 26 THEN 2 ^ 13
                   ELSE 46340)

\* a / t for a fine-unit value a and a ThetaScale-scaled divisor t # 0,
\* truncated toward zero.  The sines and tangents of the table are whole
\* multiples of 1/SinScale; only a divisor that safeSmall replaced is not.  A
\* divisor at TanMax is beyond the range of every quotient the model holds.
DivTheta(a, t) ==
  LET m == Abs(a)
      d == Abs(t)
      k == ThetaScale \div SinScale
  IN  IF d >= TanMax THEN 0
      ELSE Sgn(a) * Sgn(t) *
             (IF d % k = 0 THEN (m * SinScale) \div (d \div k)
              ELSE (m * ThetaScale) \div d)

\* a * t for a ThetaScale-scaled factor t, truncated toward zero.
MulTheta(a, t) ==
  LET m  == Abs(a)
      s  == Abs(t)
      s1 == s \div SinScale
      s0 == s % SinScale
  IN  Sgn(a) * Sgn(t) *
        ( (m \div SinScale) * s1 + ((m % SinScale) * s1) \div SinScale
          + (m \div ThetaScale) * s0 + ((m % ThetaScale) * s0) \div ThetaScale )

(***************************************************************************)
(* math-utils.ts                                                           *)
(***************************************************************************)
HalfTurn == 90 + 90          \* Math.PI in the model's angle unit (degrees)

degToRad(degrees) == (degrees * HalfTurn) \div 180

Epsilon == 1                 \* 1e-6 at ThetaScale

\* Variant: the replacement is +epsilon whatever the sign of val.
safeSmall_Unsigned(val, epsilon) ==
  IF Abs(val) < epsilon THEN epsilon ELSE val

safeSmall(val, epsilon) ==
  IF Abs(val) < epsilon
  THEN IF val >= 0 THEN epsilon ELSE -epsilon
  ELSE val

\* Math.sin, Math.cos, Math.tan of the skew angle, at ThetaScale.
SinTheta(angleRad) == MathSin(angleRad) * (ThetaScale \div SinScale)
CosTheta(angleRad) == MathCos(angleRad) * (ThetaScale \div SinScale)
TanTheta(angleRad) ==
  IF MathCos(angleRad) = 0 THEN Sgn(MathSin(angleRad)) * TanMax
  ELSE ((MathSin(angleRad) * SinScale) \div MathCos(angleRad)) * (ThetaScale \div SinScale)


(***************************************************************************)
(* JavaScript values of d1 and d2.                                         *)
(***************************************************************************)
Num(n)    == [kind |-> "number", v |-> n]
NaN       == [kind |-> "NaN", v |-> 0]
PosInf    == [kind |-> "+Infinity", v |-> 0]
NegInf    == [kind |-> "-Infinity", v |-> 0]
Undefined == [kind |-> "undefined", v |-> 0]

IsFinite(d) == d.kind = "number"
\* !d
Falsy(d)    == d.kind \in {"undefined", "NaN"} \/ (d.kind = "number" /\ d.v = 0)
\* d <= 0 (undefined converts to NaN, and every comparison with NaN is false)
LeqZero(d)  == d.kind = "-Infinity" \/ (d.kind = "number" /\ d.v <= 0)
\* isNaN(d)
isNaN(d)    == d.kind \in {"undefined", "NaN"}

\* An optional number: <<>> when the field is unset, <<n>> otherwise.
\* opt || 0
OrZero(opt) == IF opt = <<>> THEN 0 ELSE IF opt[1] = 0 THEN 0 ELSE opt[1]

(***************************************************************************)
(* geometry-engine.ts: calculateNotchGeometry                              *)
(***************************************************************************)
Tolerance == (FinePerMm * FinePerMm) \div 10      \* 0.1 mm^2 in fine units squared

InvalidDiameters(params) ==
  \/ Falsy(params.d1) \/ Falsy(params.d2)
  \/ LeqZero(params.d1) \/ LeqZero(params.d2)
  \/ isNaN(params.d1) \/ isNaN(params.d2)

\* Radii in half ticks.
R1Of(params)       == Half(params.d1.v) \div 2
R2_outerOf(params) == Half(params.d2.v) \div 2
R2_innerOf(params) == R2_outerOf(params) - Half(params.thickness)

\* The radius that feeds the intersection term, and the radius that is drawn.
MeshR2_calc(params) == IF params.calcByID THEN R2_outerOf(params) ELSE R2_innerOf(params)
MeshR2_mesh(params) == R2_outerOf(params)

\* alpha = (x / segments) * 2 * Math.PI, rounded down to a whole degree.
AlphaOf(x, segments) == (x * 2 * HalfTurn) \div segments

\* Math.pow(R1, 2) - Math.pow(R2 * Math.sin(a) + offset, 2), fine units squared.
TermAt(R1, R2, offset, a) ==
  LET c == R2 * MathSin(a) + Half(offset) * SinScale
  IN  (R1 * SinScale) * (R1 * SinScale) - c * c

MeshTerm(params, x, segments) ==
  TermAt(R1Of(params), MeshR2_calc(params), params.offset, AlphaOf(x, segments))

\* The term when a diameter is +Infinity (the only non-finite value the guard
\* lets through).  Math.sin is exactly 0 only at alpha = 0, so Infinity * sin
\* is NaN at x = 0 and infinite elsewhere.
MeshTermNonFinite(params, x) ==
  LET sq == IF IsFinite(params.d2) THEN "finite"
            ELSE IF x = 0 THEN "NaN" ELSE "+Infinity"
  IN  IF sq = "NaN" THEN "NaN"
      ELSE IF IsFinite(params.d1) THEN "-Infinity"
      ELSE IF sq = "finite" THEN "+Infinity" ELSE "NaN"

\* Variants of the pre-pass: without the tolerance, and failing on a term of 0.
PrePassFails_NoTolerance(params, segments) ==
  IF IsFinite(params.d1) /\ IsFinite(params.d2)
  THEN \E x \in 0..segments : MeshTerm(params, x, segments) < 0
  ELSE \E x \in 0..segments : MeshTermNonFinite(params, x) = "-Infinity"

PrePassFails_TouchFails(params, segments) ==
  IF IsFinite(params.d1) /\ IsFinite(params.d2)
  THEN \E x \in 0..segments : MeshTerm(params, x, segments) <= 0
  ELSE \E x \in 0..segments : MeshTermNonFinite(params, x) = "-Infinity"

\* Variant: the pre-pass sweeps only the first half turn.
PrePassFails_HalfSweep(params, segments) ==
  IF IsFinite(params.d1) /\ IsFinite(params.d2)
  THEN \E x \in 0..(segments \div 2) : MeshTerm(params, x, segments) < -Tolerance
  ELSE \E x \in 0..segments : MeshTermNonFinite(params, x) = "-Infinity"

\* The validity pre-pass: some sample 0..segments has term < -0.1.
PrePassFails(params, segments) ==
  IF IsFinite(params.d1) /\ IsFinite(params.d2)
  THEN \E x \in 0..segments : MeshTerm(params, x, segments) < -Tolerance
  ELSE \E x \in 0..segments : MeshTermNonFinite(params, x) = "-Infinity"

\* Variant: the divisors are used as computed, without safeSmall.
ThetaTrig_Unguarded(params) ==
  LET angleRad == degToRad(params.angle)
  IN  [sinTheta |-> SinTheta(angleRad),
       cosTheta |-> CosTheta(angleRad),
       sT       |-> SinTheta(angleRad),
       tT       |-> TanTheta(angleRad)]

\* The values computed once per call from the skew angle.
ThetaTrig(params) ==
  LET angleRad == degToRad(params.angle)
  IN  [sinTheta |-> SinTheta(angleRad),
       cosTheta |-> CosTheta(angleRad),
       sT       |-> safeSmall(SinTheta(angleRad), Epsilon),
       tT       |-> safeSmall(TanTheta(angleRad), Epsilon)]

\* len of grid point (y, x): the cut depth on row 0, the flat far end on row 1.
MeshCutDepth(params, tg, x, segments) ==
  LET alpha == AlphaOf(x, segments)
      raw   == MeshTerm(params, x, segments)
      term  == IF raw < 0 THEN 0 ELSE raw
      part1 == DivTheta(MathSqrt(term), tg.sT)
      part2 == DivTheta(MeshR2_mesh(params) * MathCos(alpha), tg.tT)
  IN  part1 + part2 - Fine(params.weldingGap)

MeshFlatEnd(params) ==
  LET d1f         == Fine(params.d1.v)
      pipe2Length == (d1f * 3) \div 2 + 100 * FinePerMm
  IN  d1f + pipe2Length

MeshVertex(params, tg, y, x, segments) ==
  LET alpha    == AlphaOf(x, segments)
      len      == IF y = 0 THEN MeshCutDepth(params, tg, x, segments)
                  ELSE MeshFlatEnd(params)
      wx       == tg.sinTheta
      wy       == tg.cosTheta
      ux       == -tg.cosTheta
      uy       == tg.sinTheta
      radComp1 == MeshR2_mesh(params) * MathCos(alpha)
      radComp2 == MeshR2_mesh(params) * MathSin(alpha) + Half(params.offset) * SinScale
  IN  [x |-> MulTheta(radComp1, ux) + MulTheta(len, wx),
       y |-> MulTheta(radComp1, uy) + MulTheta(len, wy),
       z |-> radComp2]

\* With an infinite diameter every coordinate is Infinity or NaN.
NonFiniteVertex == [x |-> "non-finite", y |-> "non-finite", z |-> "non-finite"]

\* Variant of the grid: the column loop stops one short (x < segments).
MeshVertices_ColumnShort(params, segments) ==
  LET tg == ThetaTrig(params)
  IN  [k \in 1..(2 * segments) |->
         IF IsFinite(params.d1) /\ IsFinite(params.d2)
         THEN MeshVertex(params, tg, (k - 1) \div segments, (k - 1) % segments, segments)
         ELSE NonFiniteVertex]

\* Rows y = 0, 1 of columns x = 0..segments, row by row.
MeshVertices(params, segments) ==
  LET tg == ThetaTrig(params)
  IN  [k \in 1..(2 * (segments + 1)) |->
         IF IsFinite(params.d1) /\ IsFinite(params.d2)
         THEN MeshVertex(params, tg, (k - 1) \div (segments + 1),
                         (k - 1) % (segments + 1), segments)
         ELSE NonFiniteVertex]

\* uvs.push(x / segments, y): u at SinScale.
MeshUvs(segments) ==
  [k \in 1..(4 * (segments + 1)) |->
     LET p == (k - 1) \div 2
         y == p \div (segments + 1)
         x == p % (segments + 1)
     IN  IF k % 2 = 1 THEN (x * SinScale) \div segments ELSE y]

\* unrolledX = (x / segments) * (2 * Math.PI * R2_outer): an arc length, held
\* in half ticks times pi/180.
MeshContour2D(params, segments) ==
  LET tg == ThetaTrig(params)
  IN  [k \in 1..(segments + 1) |->
         IF IsFinite(params.d1) /\ IsFinite(params.d2)
         THEN [x |-> ((k - 1) * 2 * HalfTurn * R2_outerOf(params)) \div segments,
               y |-> MeshCutDepth(params, tg, k - 1, segments)]
         ELSE [x |-> "non-finite", y |-> "non-finite"]]

\* Variant: d is taken one vertex further along the far row.
QuadIndices_Skewed(x, segments) ==
  << x, x + 1, x + segments + 3, x, x + segments + 3, x + segments + 1 >>

\* indices.push(a, b, d); indices.push(a, d, c) for x = 0..segments-1.
QuadIndices(x, segments) ==
  << x, x + 1, x + segments + 2, x, x + segments + 2, x + segments + 1 >>

MeshIndices(segments) ==
  [k \in 1..(6 * segments) |-> QuadIndices((k - 1) \div 6, segments)[((k - 1) % 6) + 1]]

ErrInvalidDiameters == "Invalid Diameters."
ErrNoIntersect      == "Geometry Error: Pipes do not intersect."

\* Variant: the non-intersection exit hands back the arrays built so far.
calculateNotchGeometry_PartialMesh(params, segments) ==
  IF InvalidDiameters(params)
  THEN [vertices |-> <<>>, indices |-> <<>>, uvs |-> <<>>, isValid |-> FALSE,
        error |-> ErrInvalidDiameters]
  ELSE IF PrePassFails(params, segments)
  THEN [vertices |-> <<>>, indices |-> MeshIndices(segments), uvs |-> MeshUvs(segments),
        isValid |-> FALSE, error |-> ErrNoIntersect]
  ELSE [vertices |-> MeshVertices(params, segments),
        indices |-> MeshIndices(segments),
        uvs |-> MeshUvs(segments),
        isValid |-> TRUE,
        contour2D |-> MeshContour2D(params, segments)]

calculateNotchGeometry(params, segments) ==
  IF InvalidDiameters(params)
  THEN [vertices |-> <<>>, indices |-> <<>>, uvs |-> <<>>, isValid |-> FALSE,
        error |-> ErrInvalidDiameters]
  ELSE IF PrePassFails(params, segments)
  THEN [vertices |-> <<>>, indices |-> <<>>, uvs |-> <<>>, isValid |-> FALSE,
        error |-> ErrNoIntersect]
  ELSE [vertices |-> MeshVertices(params, segments),
        indices |-> MeshIndices(segments),
        uvs |-> MeshUvs(segments),
        isValid |-> TRUE,
        contour2D |-> MeshContour2D(params, segments)]

(***************************************************************************)
(* geometry-engine.ts: calculateUnrolledPoints, calculatePipe2D,           *)
(* calculateHole2D.  Parameters are finite numbers here.                   *)
(***************************************************************************)
steps == 360

PipeR2_calc(params) == IF params.calcByID THEN R2_outerOf(params) ELSE R2_innerOf(params)
PipeR2_draw(params) == R2_outerOf(params)

\* Variant: the sampling starts one degree past the seam.
EffAngle_Shifted(params, i, n) ==
  (i * 2 * HalfTurn) \div n + degToRad(params.startAngle) + 1

\* effAngle = (i / steps) * 2 * Math.PI + startAngleRad
EffAngle(params, i, n) == (i * 2 * HalfTurn) \div n + degToRad(params.startAngle)

PipeTerm(params, i, n) ==
  TermAt(R1Of(params), PipeR2_calc(params), params.offset, EffAngle(params, i, n))

\* if (term < 0) { if (term > -0.1) term = 0; else continue; }
PipeSkipped(term) == term < 0 /\ ~(term > -Tolerance)
PipeClamp(term)   == IF term < 0 THEN 0 ELSE term

\* lengthToTouch for a clamped term, with the drawn radius R2_draw.
LengthToTouch(params, tg, term, R2_draw, effAngle) ==
  DivTheta(MathSqrt(term), tg.sT) + DivTheta(R2_draw * MathCos(effAngle), tg.tT)
    - Fine(params.weldingGap)

\* x = ratio * circumference, an arc length in half ticks times pi/180.
PipeX(R2_draw, i, n) == (i * 2 * HalfTurn * R2_draw) \div n

PipeSample(params, tg, i, n) ==
  LET term == PipeTerm(params, i, n)
  IN  IF PipeSkipped(term) THEN [skip |-> TRUE, x |-> 0, y |-> 0]
      ELSE [skip |-> FALSE,
            x    |-> PipeX(PipeR2_draw(params), i, n),
            y    |-> LengthToTouch(params, tg, PipeClamp(term), PipeR2_draw(params),
                                   EffAngle(params, i, n))]

\* Variant: the points come out in reverse loop order.
PointsOf_Reversed(ss) == [k \in 1..Len(ss) |-> [x |-> ss[Len(ss) + 1 - k].x,
                                                 y |-> ss[Len(ss) + 1 - k].y]]

Kept(s)      == ~s.skip
PointOf(s)   == [x |-> s.x, y |-> s.y]
PointsOf(ss) == [k \in 1..Len(ss) |-> PointOf(ss[k])]

\* The points pushed by the loop over i = 0..n, in loop order.
PipeRawPoints(params, n) ==
  LET tg == ThetaTrig(params)
  IN  PointsOf(SelectSeq([k \in 1..(n + 1) |-> PipeSample(params, tg, k - 1, n)], Kept))

\* let minY = Infinity; for (const p of points) if (p.y < minY) minY = p.y;
\* The fold over points[lo..hi], split in halves to keep the evaluation
\* shallow; <<>> stands for Infinity, the value minY has before any point.
Lower(a, b) == IF a = <<>> THEN b ELSE IF b = <<>> THEN a
               ELSE IF b[1] < a[1] THEN b ELSE a

RECURSIVE MinYFrom(_, _, _)
MinYFrom(points, lo, hi) ==
  IF lo > hi THEN <<>>
  ELSE IF lo = hi THEN << points[lo].y >>
  ELSE LET mid == (lo + hi) \div 2
       IN  Lower(MinYFrom(points, lo, mid), MinYFrom(points, mid + 1, hi))

MinY(points) == MinYFrom(points, 1, Len(points))

\* Variant: the shift forgets the padding.
ShiftY_NoPadding(p, minY, padding) == [x |-> p.x, y |-> p.y - minY]

ShiftY(p, minY, padding) == [x |-> p.x, y |-> p.y - minY + padding]

\* Normalization: shift so that the minimum y equals the padding.
Normalize(points, padding) ==
  LET minY == MinY(points)
  IN  IF minY = <<>> THEN <<>>
      ELSE [k \in 1..Len(points) |-> ShiftY(points[k], minY[1], padding)]

calculatePipe2D(params, n) ==
  Normalize(PipeRawPoints(params, n), Fine(OrZero(params.paddingD2)))

\* Math.atan2(z, x) in whole degrees in (-180, 180], rounded toward the x axis.
RECURSIVE AtanSearch(_, _, _, _)
AtanSearch(z, x, lo, hi) ==
  IF hi - lo <= 1
  THEN IF MathSin(hi) * x <= MathCos(hi) * z THEN hi ELSE lo
  ELSE LET mid == (lo + hi) \div 2
       IN  IF MathSin(mid) * x <= MathCos(mid) * z
           THEN AtanSearch(z, x, mid, hi)
           ELSE AtanSearch(z, x, lo, mid)

MathAtan2(z, x) ==
  LET a == IF z = 0 THEN 0 ELSE AtanSearch(Abs(z), Abs(x), 0, HalfTurn \div 2)
  IN  IF x >= 0 THEN (IF z >= 0 THEN a ELSE -a)
      ELSE (IF z >= 0 THEN HalfTurn - a ELSE a - HalfTurn)

\* Variant: the hole follows calcByID as the branch contour does.
HoleR2_FollowsCalcByID(params) ==
  IF params.calcByID THEN R2_outerOf(params) ELSE R2_innerOf(params)

HoleR2(params) == R2_innerOf(params)

HoleTerm(params, i, n) ==
  LET alpha == (i * 2 * HalfTurn) \div n
      C2    == HoleR2(params) * MathSin(alpha) + Half(params.offset) * SinScale
  IN  (R1Of(params) * SinScale) * (R1Of(params) * SinScale) - C2 * C2

\* if (term < 0) continue;
HoleSkipped(term) == term < 0

HoleSample(params, tg, i, n) ==
  LET alpha    == (i * 2 * HalfTurn) \div n
      r2Sin    == HoleR2(params) * MathSin(alpha)
      r2Cos    == HoleR2(params) * MathCos(alpha)
      C1       == MulTheta(r2Cos, tg.cosTheta)
      term     == HoleTerm(params, i, n)
      sqrtVal  == MathSqrt(term)
      t        == DivTheta(sqrtVal + C1, tg.sT)
      x3d      == MulTheta(t, tg.sinTheta) - MulTheta(r2Cos, tg.cosTheta)
      z3d      == r2Sin + Half(params.offset) * SinScale
      y3d      == MulTheta(t, tg.cosTheta) + MulTheta(r2Cos, tg.sinTheta)
      phi0     == MathAtan2(z3d, x3d)
      phi      == IF phi0 < 0 THEN phi0 + 2 * HalfTurn ELSE phi0
      shift0   == phi - HalfTurn
      phiShift == IF shift0 < 0 THEN shift0 + 2 * HalfTurn ELSE shift0
  IN  IF HoleSkipped(term) THEN [skip |-> TRUE, x |-> 0, y |-> 0]
      ELSE [skip |-> FALSE, x |-> R1Of(params) * phiShift, y |-> y3d]

HoleRawPoints(params, n) ==
  LET tg == ThetaTrig(params)
  IN  PointsOf(SelectSeq([k \in 1..(n + 1) |-> HoleSample(params, tg, k - 1, n)], Kept))

calculateHole2D(params, n) ==
  Normalize(HoleRawPoints(params, n), Fine(OrZero(params.paddingD1)))

calculateUnrolledPoints(params, type) ==
  IF type = "pipe" THEN calculatePipe2D(params, steps)
  ELSE calculateHole2D(params, steps)

(***************************************************************************)
(* dxf-service.ts: the pipe contour generateDXF draws (its own loop).      *)
(***************************************************************************)
DxfSteps == 360

DxfR2_calc(params) == R2_outerOf(params)
DxfR2_draw(params) == R2_outerOf(params)

DxfPipeTerm(params, i) ==
  TermAt(R1Of(params), DxfR2_calc(params), params.offset, EffAngle(params, i, DxfSteps))

DxfPipeSample(params, tg, i) ==
  LET term == DxfPipeTerm(params, i)
  IN  IF PipeSkipped(term) THEN [skip |-> TRUE, x |-> 0, y |-> 0]
      ELSE [skip |-> FALSE,
            x    |-> PipeX(DxfR2_draw(params), i, DxfSteps),
            y    |-> LengthToTouch(params, tg, PipeClamp(term), DxfR2_draw(params),
                                   EffAngle(params, i, DxfSteps))]

DxfCalculatePipe2D(params) ==
  LET tg == ThetaTrig(params)
  IN  PointsOf(SelectSeq([k \in 1..(DxfSteps + 1) |-> DxfPipeSample(params, tg, k - 1)],
                         Kept))

\* The hole loop of dxf-service.ts is the engine's loop without normalization.
DxfCalculateHole2D(params) == HoleRawPoints(params, DxfSteps)

\* Math.max(...points.map(p => p.y)) and Math.min(...) of a non-empty list.
RECURSIVE MaxYFrom(_, _, _)
MaxYFrom(points, lo, hi) ==
  IF lo = hi THEN points[lo].y
  ELSE LET mid == (lo + hi) \div 2
           a   == MaxYFrom(points, lo, mid)
           b   == MaxYFrom(points, mid + 1, hi)
       IN  IF b > a THEN b ELSE a

MathMaxY(points) == MaxYFrom(points, 1, Len(points))
MathMinY(points) == MinY(points)[1]

\* Number.toFixed(4) of a length in fine units: ten-thousandths of a
\* millimetre, rounded half away from zero.
ToFixed4(v) ==
  LET q == FinePerMm \div 10 ^ 4
  IN  Sgn(v) * ((Abs(v) + q \div 2) \div q)

\* Number.toFixed(4) of an arc length held in half ticks times pi/180,
\* with pi = 355/113:  x * pi / (180 * 2 * UnitsPerMm) mm.
ToFixed4Arc(x) ==
  LET num == 355 * (10 ^ 4 \div 400)
      den == 113 * ((180 * 2 * UnitsPerMm) \div 400)
  IN  Sgn(x) * ((Abs(x) * num + den \div 2) \div den)

DxfVertex(x, y)   == [x |-> x, y |-> y]
DxfPolyline(closed, vertices) ==
  [entity |-> "POLYLINE", flag70 |-> IF closed THEN 1 ELSE 0, vertices |-> vertices]

\* Pipe: y -> maxY - y + pad.  Hole: y -> y - minY + pad.
InvertY(points, maxY, pad) ==
  [k \in 1..Len(points) |-> [x |-> points[k].x, y |-> maxY - points[k].y + pad]]
ShiftUpY(points, minY, pad) ==
  [k \in 1..Len(points) |-> [x |-> points[k].x, y |-> points[k].y - minY + pad]]

DxfShifted(type, points, pad) ==
  IF type = "pipe" THEN InvertY(points, MathMaxY(points), pad)
  ELSE ShiftUpY(points, MathMinY(points), pad)

DxfVertices(shifted) ==
  [k \in 1..Len(shifted) |-> DxfVertex(ToFixed4Arc(shifted[k].x), ToFixed4(shifted[k].y))]

\* The main contour: open with the two sheet corners for the pipe, closed
\* for the hole.
DxfMain(type, shifted) ==
  IF type = "pipe"
  THEN DxfPolyline(FALSE, DxfVertices(shifted)
                            \o << DxfVertex(ToFixed4Arc(shifted[Len(shifted)].x), 0),
                                  DxfVertex(0, 0) >>)
  ELSE DxfPolyline(TRUE, DxfVertices(shifted))

\* The outer frame of the hole template.
DxfFrame(maxX, maxY) ==
  DxfPolyline(TRUE, << DxfVertex(0, 0), DxfVertex(ToFixed4Arc(maxX), 0),
                       DxfVertex(ToFixed4Arc(maxX), ToFixed4(maxY)),
                       DxfVertex(0, ToFixed4(maxY)) >>)

DxfEntities(type, params, shifted, pad) ==
  IF type = "pipe" THEN << DxfMain(type, shifted) >>
  ELSE << DxfMain(type, shifted),
          DxfFrame(2 * HalfTurn * R1Of(params), MathMaxY(shifted) + pad) >>

DxfOfPoints(type, params, points, pad) ==
  IF Len(points) = 0 THEN [empty |-> TRUE, entities |-> <<>>]
  ELSE [empty |-> FALSE,
        entities |-> DxfEntities(type, params, DxfShifted(type, points, pad), pad)]

\* generateDXF(type, params): "" or the entities between header and footer.
generateDXF(type, params) ==
  LET pad    == Fine(OrZero(IF type = "pipe" THEN params.paddingD2 ELSE params.paddingD1))
      result == calculateNotchGeometry(params, 360)
  IN  IF type = "pipe" /\ (~result.isValid \/ "contour2D" \notin DOMAIN result)
      THEN [empty |-> TRUE, entities |-> <<>>]
      ELSE DxfOfPoints(type, params,
                       IF type = "pipe" THEN DxfCalculatePipe2D(params)
                       ELSE DxfCalculateHole2D(params),
                       pad)

(***************************************************************************)
(* dxf-writer.ts: DxfWriter and createDxfString.  A DXF string is held as  *)
(* the sequence of its groups, a group being a code line and a value line. *)
(* The value is a literal text, a number printed by toFixed(4) (held in    *)
(* ten-thousandths of a millimetre) or an interpolated integer.  Point     *)
(* coordinates are in fine units on both axes.                             *)
(***************************************************************************)
\* Point2D
Pt(x, y) == [x |-> x, y |-> y]

Group(code, text)   == [code |-> code, text |-> text, num |-> 0]
GroupFixed(code, v) == [code |-> code, text |-> "toFixed(4)", num |-> ToFixed4(v)]
GroupInt(code, n)   == [code |-> code, text |-> "integer", num |-> n]

HeaderPart == << Group(0, "SECTION"), Group(2, "ENTITIES") >>
FooterPart == << Group(0, "ENDSEC"), Group(0, "EOF") >>

PolylinePart(closed) ==
  << Group(0, "POLYLINE"), Group(8, "0"), Group(66, "1"),
     GroupInt(70, IF closed THEN 1 ELSE 0) >>

VertexPart(p) ==
  << Group(0, "VERTEX"), Group(8, "0"), GroupFixed(10, p.x), GroupFixed(20, p.y),
     Group(30, "0.0") >>

SeqEndPart == << Group(0, "SEQEND") >>

\* new DxfWriter(): parts holds the header.
NewDxfWriter == << HeaderPart >>

\* 0.001 mm in fine units.
CloseTolerance == FinePerMm \div 1000

\* Math.sqrt(Math.pow(a.x - b.x, 2) + Math.pow(a.y - b.y, 2)) > tol, decided
\* on the squares; a leg longer than tol decides it before squaring.
FartherThan(a, b, tol) ==
  LET dx == Abs(a.x - b.x)
      dy == Abs(a.y - b.y)
  IN  dx > tol \/ dy > tol \/ dx * dx + dy * dy > tol * tol

\* Variant: the closing vertex is appended whenever the flag is set.
addPolyline_AlwaysCloses(parts, points, closed) ==
  IF Len(points) = 0 THEN parts
  ELSE parts \o << PolylinePart(closed) >>
             \o [k \in 1..Len(points) |-> VertexPart(points[k])]
             \o (IF closed THEN << VertexPart(points[1]) >> ELSE << >>)
             \o << SeqEndPart >>

\* Variant: the polyline is left without its SEQEND.
addPolyline_NoSeqEnd(parts, points, closed) ==
  IF Len(points) = 0 THEN parts
  ELSE parts \o << PolylinePart(closed) >>
             \o [k \in 1..Len(points) |-> VertexPart(points[k])]
             \o (IF closed /\ FartherThan(points[1], points[Len(points)], CloseTolerance)
                 THEN << VertexPart(points[1]) >> ELSE << >>)

\* addPolyline(points, closed): the parts after the call.
addPolyline(parts, points, closed) ==
  IF Len(points) = 0 THEN parts
  ELSE parts \o << PolylinePart(closed) >>
             \o [k \in 1..Len(points) |-> VertexPart(points[k])]
             \o (IF closed /\ FartherThan(points[1], points[Len(points)], CloseTolerance)
                 THEN << VertexPart(points[1]) >> ELSE << >>)
             \o << SeqEndPart >>

\* addLine(p1, p2, colorIndex): three parts, four with a colour.
addLine(parts, p1, p2, colorIndex) ==
  parts \o << << Group(0, "LINE"), Group(8, "CenterLines") >> >>
        \o (IF colorIndex > 0 THEN << << GroupInt(62, colorIndex) >> >> ELSE << >>)
        \o << << GroupFixed(10, p1.x), GroupFixed(20, p1.y), Group(30, "0.0") >>,
              << GroupFixed(11, p2.x), GroupFixed(21, p2.y), Group(31, "0.0") >> >>

addRectangle(parts, minX, minY, maxX, maxY) ==
  addPolyline(parts,
              << [x |-> minX, y |-> minY], [x |-> maxX, y |-> minY],
                 [x |-> maxX, y |-> maxY], [x |-> minX, y |-> maxY],
                 [x |-> minX, y |-> minY] >>,
              TRUE)

\* Array.join(""): the parts[lo..hi] one after another, split in halves to
\* keep the evaluation shallow.
RECURSIVE JoinFrom(_, _, _)
JoinFrom(parts, lo, hi) ==
  IF lo > hi THEN << >>
  ELSE IF lo = hi THEN parts[lo]
  ELSE LET mid == (lo + hi) \div 2
       IN  JoinFrom(parts, lo, mid) \o JoinFrom(parts, mid + 1, hi)

Join(parts) == JoinFrom(parts, 1, Len(parts))

\* createString(): [...this.parts, footer].join("")
createString(parts) == Join(parts \o << FooterPart >>)

createDxfString(points, closed) ==
  createString(addPolyline(NewDxfWriter, points, closed))

(***************************************************************************)
(* pdf-generator.ts: generatePdf.  The page is held by what jsPDF is given: *)
(* the orientation, the format and the ends of the lines drawn for the     *)
(* contour, the sheet edges and the crosshair.  Texts, dimension marks and *)
(* ruler ticks are not held.  Lengths in fine units.                       *)
(***************************************************************************)
marginLeft   == 20
marginRight  == 20
marginTop    == 30
marginBottom == 20

\* A margin given in millimetres, in fine units.
MarginFine(mm) == mm * FinePerMm

\* The least and the greatest of vals[lo..hi], lo <= hi.
RECURSIVE LeastFrom(_, _, _)
LeastFrom(vals, lo, hi) ==
  IF lo = hi THEN vals[lo]
  ELSE LET mid == (lo + hi) \div 2
           a   == LeastFrom(vals, lo, mid)
           b   == LeastFrom(vals, mid + 1, hi)
       IN  IF b < a THEN b ELSE a

RECURSIVE GreatestFrom(_, _, _)
GreatestFrom(vals, lo, hi) ==
  IF lo = hi THEN vals[lo]
  ELSE LET mid == (lo + hi) \div 2
           a   == GreatestFrom(vals, lo, mid)
           b   == GreatestFrom(vals, mid + 1, hi)
       IN  IF b > a THEN b ELSE a

\* minX, maxX, minY, maxY of a non-empty list, as the forEach loop leaves them.
BoundingBox(points) ==
  LET xs == [k \in 1..Len(points) |-> points[k].x]
      ys == [k \in 1..Len(points) |-> points[k].y]
  IN  [minX |-> LeastFrom(xs, 1, Len(xs)), maxX |-> GreatestFrom(xs, 1, Len(xs)),
       minY |-> LeastFrom(ys, 1, Len(ys)), maxY |-> GreatestFrom(ys, 1, Len(ys))]

PdfLine(p1, p2) == [from |-> p1, to |-> p2]

\* Variant: the model's y is not flipped.
toPage_Unflipped(originX, originY, x, y) == [x |-> originX + x, y |-> y]

\* Variant: x is drawn where the model has it, without the origin.
toPage_NoOrigin(originX, originY, x, y) == [x |-> x, y |-> originY - y]

toPage(originX, originY, x, y) == [x |-> originX + x, y |-> originY - y]

\* The lines drawn after the contour: the sheet edges of the pipe template,
\* the closing segment and the crosshair of the hole template.
PdfOutline(type, points, box, originX, originY) ==
  LET first == points[1]
      last  == points[Len(points)]
      centerX == (box.minX + box.maxX) \div 2
      centerY == (box.minY + box.maxY) \div 2
      P(x, y) == toPage(originX, originY, x, y)
  IN  IF type = "pipe"
      THEN << PdfLine(P(box.minX, 0), P(box.maxX, 0)),
              PdfLine(P(box.minX, 0), P(box.minX, first.y)),
              PdfLine(P(box.maxX, 0), P(box.maxX, last.y)) >>
      ELSE << PdfLine(P(last.x, last.y), P(first.x, first.y)),
              PdfLine(P(centerX, box.minY), P(centerX, box.maxY)),
              PdfLine(P(box.minX, centerY), P(box.maxX, centerY)) >>

\* generatePdf from its step 2 on, for the non-empty points it computed.
PdfDocument(points, type) ==
  LET box           == BoundingBox(points)
      contentWidth  == box.maxX - box.minX
      contentHeight == box.maxY
      pageW         == contentWidth + MarginFine(marginLeft) + MarginFine(marginRight)
      pageH         == contentHeight + MarginFine(marginTop) + MarginFine(marginBottom)
      originX       == MarginFine(marginLeft) - box.minX
      originY       == pageH - MarginFine(marginBottom)
  IN  [orientation |-> IF pageW > pageH THEN "l" ELSE "p",
       format      |-> << pageW, pageH >>,
       contour     |-> [i \in 1..(Len(points) - 1) |->
                          PdfLine(toPage(originX, originY, points[i].x, points[i].y),
                                  toPage(originX, originY, points[i + 1].x,
                                         points[i + 1].y))],
       outline     |-> PdfOutline(type, points, box, originX, originY)]

(***************************************************************************)
(* useDownloadAction.ts: download.  What it does is held as the alert it   *)
(* raises (<<>> for none) and the file it saves (<<>> for none).           *)
(***************************************************************************)
\* An arc length of the kernel (half ticks times pi/180) in fine units, with
\* pi = 355/113.
ArcFine(x) == Sgn(x) * ((Abs(x) * 71 * SinScale + (113 * 36) \div 2) \div (113 * 36))

\* The kernel's points with both coordinates in fine units.
PointsInFine(points) == [k \in 1..Len(points) |-> Pt(ArcFine(points[k].x), points[k].y)]

NoGeometryAlert   == "No geometry to export."
NoValidGeoAlert   == "Could not generate valid geometry for export."

Alerted(text)  == [alert |-> << text >>, file |-> << >>]
Saved(format, content) == [alert |-> << >>, file |-> << [format |-> format, content |-> content] >>]

generatePdf(params, type) ==
  LET points == PointsInFine(calculateUnrolledPoints(params, type))
  IN  IF Len(points) = 0 THEN Alerted(NoGeometryAlert)
      ELSE Saved("pdf", PdfDocument(points, type))

\* finalPoints of the pipe template: the sheet corners around the contour.
FramedPipe(points) ==
  << Pt(0, 0) >> \o points \o << Pt(points[Len(points)].x, 0), Pt(0, 0) >>

\* The hole template: the contour and the two red centre lines.
HoleDxfString(finalPoints) ==
  LET box     == BoundingBox(finalPoints)
      centerX == (box.minX + box.maxX) \div 2
      centerY == (box.minY + box.maxY) \div 2
      contour == addPolyline(NewDxfWriter, finalPoints, TRUE)
      upright == addLine(contour, Pt(centerX, box.minY), Pt(centerX, box.maxY), 1)
      level   == addLine(upright, Pt(box.minX, centerY), Pt(box.maxX, centerY), 1)
  IN  createString(level)

download(params, type, format) ==
  IF format = "pdf" THEN generatePdf(params, type)
  ELSE LET points == PointsInFine(calculateUnrolledPoints(params, type))
       IN  IF Len(points) = 0 THEN Alerted(NoValidGeoAlert)
           ELSE IF type = "hole" THEN Saved("dxf", HoleDxfString(points))
           ELSE Saved("dxf", createDxfString(FramedPipe(points), TRUE))

(***************************************************************************)
(* The parameter values explored.  Lengths in ticks of 0.05 mm.            *)
(***************************************************************************)
Mm(v) == v * UnitsPerMm

D1Values          == {3, 12}
D2Values          == {6, 13}
ThicknessValues   == {0, 1, 4}
AngleValues       == {1, 45, 90}
OffsetValues      == {-3, 0, 2, 7}
WeldingGapValues  == {0, 1}
StartAngleValues  == {0, 30}
PaddingValues     == {<<>>, <<Mm(20)>>}
SpecialDiameters  == {NaN, PosInf, NegInf, Undefined, Num(0), Num(-4)}

FiniteParams ==
  [d1 : {Num(v) : v \in D1Values}, d2 : {Num(v) : v \in D2Values},
   thickness : ThicknessValues, angle : AngleValues, offset : OffsetValues,
   weldingGap : WeldingGapValues, startAngle : StartAngleValues,
   paddingD1 : PaddingValues, paddingD2 : PaddingValues, calcByID : BOOLEAN]

BaseParams ==
  [d1 |-> Num(12), d2 |-> Num(6), thickness |-> 1, angle |-> 90, offset |-> 0,
   weldingGap |-> 0, startAngle |-> 0, paddingD1 |-> <<Mm(20)>>,
   paddingD2 |-> <<Mm(20)>>, calcByID |-> TRUE]

\* The fields that place the two cylinders, and the fields that only shape
\* the cut and the template.
Placement(p) == << p.d1, p.d2, p.thickness, p.offset, p.calcByID >>
Shaping(p)   == << p.angle, p.weldingGap, p.startAngle, p.paddingD1, p.paddingD2 >>

OtherShaping == << 45, 1, 30, <<>>, <<>> >>
FarOffset    == [BaseParams EXCEPT !.offset = 7]

\* Every placement under two shapings, every shaping under two placements.
VariedParams ==
  {p \in FiniteParams :
     \/ Shaping(p) \in {Shaping(BaseParams), OtherShaping}
     \/ Placement(p) \in {Placement(BaseParams), Placement(FarOffset)}}

\* Parameters whose d1 or d2 is not a positive finite number.
SpecialParams ==
  {[BaseParams EXCEPT !.d1 = a, !.d2 = b] :
     a \in SpecialDiameters \cup {Num(12)}, b \in SpecialDiameters \cup {Num(6)}}

ParamSet == VariedParams \cup SpecialParams

FiniteDiameters(p) == IsFinite(p.d1) /\ IsFinite(p.d2)

MaxSegments == 4

(***************************************************************************)
(* State: the parameters of the current computation and what the last     *)
(* call returned, with the radii it worked with; the parts of a DxfWriter  *)
(* with the log of what was added to it; the store's errorMessage and      *)
(* whether BranchPipe's effect has yet to run for the parameters.          *)
(***************************************************************************)
VARIABLES params, ret, parts, added, errorMessage, effectPending, deps,
          inputValue, timer, typing

vars == << params, ret, parts, added, errorMessage, effectPending, deps,
           inputValue, timer, typing >>

writerVars == << parts, added >>
storeVars  == << errorMessage, effectPending, deps >>
inputVars  == << inputValue, timer, typing >>

\* A writer as constructed, and the store before the first render.
FreshWriter == parts = NewDxfWriter /\ added = << >>
FreshStore  == errorMessage = << >> /\ effectPending = TRUE /\ deps = << >>

\* No DebouncedInput is mounted: the kernel, the writer and the export are
\* explored without the inputs.
NoInputs == inputValue = << >> /\ timer = << >> /\ typing = << >>

NoCall == [op |-> "none"]

Init ==
  /\ params \in ParamSet
  /\ ret = NoCall
  /\ FreshWriter /\ FreshStore /\ NoInputs

\* calculateNotchGeometry(params, segments)
CallNotchGeometry(segments) ==
  /\ ret.op = "none"
  /\ ret' = [op |-> "mesh", segments |-> segments,
             result |-> calculateNotchGeometry(params, segments),
             radii |-> IF InvalidDiameters(params) \/ ~FiniteDiameters(params) THEN <<>>
                       ELSE << [calc |-> MeshR2_calc(params), draw |-> MeshR2_mesh(params)] >>]
  /\ UNCHANGED << params, writerVars, storeVars, inputVars >>

\* calculateUnrolledPoints(params, type)
CallUnrolledPoints(type) ==
  /\ ret.op = "none"
  /\ FiniteDiameters(params)
  /\ ret' = [op |-> "unrolled", type |-> type,
             result |-> calculateUnrolledPoints(params, type),
             radii |-> IF type = "pipe"
                       THEN << [calc |-> PipeR2_calc(params), draw |-> PipeR2_draw(params)] >>
                       ELSE <<>>]
  /\ UNCHANGED << params, writerVars, storeVars, inputVars >>

\* generateDXF(type, params)
CallGenerateDXF(type) ==
  /\ ret.op = "none"
  /\ FiniteDiameters(params)
  /\ ret' = [op |-> "dxf", type |-> type,
             result |-> generateDXF(type, params),
             radii |-> IF type = "pipe"
                       THEN << [calc |-> DxfR2_calc(params), draw |-> DxfR2_draw(params)] >>
                       ELSE <<>>]
  /\ UNCHANGED << params, writerVars, storeVars, inputVars >>

\* The caller is done with the returned value.
Return ==
  /\ ret.op # "none"
  /\ ret' = NoCall
  /\ UNCHANGED << params, writerVars, storeVars, inputVars >>

NextMesh ==
  \/ \E segments \in 1..MaxSegments : CallNotchGeometry(segments)
  \/ Return

NextUnrolled ==
  \/ \E type \in {"pipe", "hole"} : CallUnrolledPoints(type)
  \/ Return

Next ==
  \/ \E segments \in 1..MaxSegments : CallNotchGeometry(segments)
  \/ \E type \in {"pipe", "hole"} : CallUnrolledPoints(type)
  \/ \E type \in {"pipe", "hole"} : CallGenerateDXF(type)
  \/ Return

(***************************************************************************)
(* A DxfWriter under any sequence of calls.  The points handed to it.      *)
(***************************************************************************)
MaxEntities == 3

\* Contours to write: none, a single point, ends exactly 0.001 apart, ends
\* farther apart, ends that coincide.
NoPoints     == << >>
OnePoint     == << Pt(0, 0) >>
EndsAtLimit  == << Pt(0, 0), Pt(100002, 50006), Pt(24, 32) >>
EndsApart    == << Pt(0, 0), Pt(100002, 50006), Pt(41, 0) >>
EndsCoincide == << Pt(100002, 50006), Pt(41, 0), Pt(-7, 120000), Pt(100002, 50006) >>

\* The addPolyline calls tried: the points and the closed flag.
WriterPolylines ==
  { << NoPoints, TRUE >>, << OnePoint, TRUE >>, << EndsCoincide, TRUE >>,
    << EndsAtLimit, TRUE >>, << EndsAtLimit, FALSE >>,
    << EndsApart, TRUE >>, << EndsApart, FALSE >> }

\* A string was made by this writer before the call now made on it.
StringMadeBefore == ret.op = "createString" \/ (ret.op # "none" /\ ret.afterString)

WriterAddPolyline(points, closed) ==
  /\ Len(added) < MaxEntities
  /\ parts' = addPolyline(parts, points, closed)
  /\ added' = Append(added, [kind |-> "POLYLINE", flag |-> IF closed THEN 1 ELSE 0,
                              pts |-> points])
  /\ ret' = [op |-> "addPolyline", afterString |-> StringMadeBefore]
  /\ UNCHANGED << params, storeVars, inputVars >>

WriterAddLine(p1, p2, colorIndex) ==
  /\ Len(added) < MaxEntities
  /\ parts' = addLine(parts, p1, p2, colorIndex)
  /\ added' = Append(added, [kind |-> "LINE", flag |-> colorIndex, pts |-> << p1, p2 >>])
  /\ ret' = [op |-> "addLine", afterString |-> StringMadeBefore]
  /\ UNCHANGED << params, storeVars, inputVars >>

WriterAddRectangle(minX, minY, maxX, maxY) ==
  /\ Len(added) < MaxEntities
  /\ parts' = addRectangle(parts, minX, minY, maxX, maxY)
  /\ added' = Append(added, [kind |-> "POLYLINE", flag |-> 1,
                              pts |-> << Pt(minX, minY), Pt(maxX, minY), Pt(maxX, maxY),
                                         Pt(minX, maxY), Pt(minX, minY) >>])
  /\ ret' = [op |-> "addRectangle", afterString |-> StringMadeBefore]
  /\ UNCHANGED << params, storeVars, inputVars >>

\* Variant: createString pushes the footer onto parts before joining.
WriterCreateString_KeepsFooter ==
  /\ parts' = parts \o << FooterPart >>
  /\ ret' = [op |-> "createString", result |-> Join(parts'),
             afterString |-> ret.op # "none" /\ ret.afterString]
  /\ UNCHANGED << params, added, storeVars, inputVars >>

WriterCreateString ==
  /\ ret' = [op |-> "createString", result |-> createString(parts),
             afterString |-> ret.op # "none" /\ ret.afterString]
  /\ UNCHANGED << params, writerVars, storeVars, inputVars >>

NextWriter ==
  \/ \E call \in WriterPolylines : WriterAddPolyline(call[1], call[2])
  \/ \E colorIndex \in {0, 1} : WriterAddLine(Pt(20, -40), Pt(20, 90001), colorIndex)
  \/ WriterAddRectangle(0, 0, 120000, 80000)
  \/ WriterCreateString

InitWriter ==
  /\ params = BaseParams
  /\ ret = NoCall
  /\ FreshWriter /\ FreshStore /\ NoInputs

(***************************************************************************)
(* The export path of the application: BranchPipe renders the parameters   *)
(* and its effect stores the verdict of the preview mesh; the Sidebar's    *)
(* export buttons call download unless an error is stored.  React runs a   *)
(* pending effect before it handles a click, so an export waits for it.    *)
(***************************************************************************)
PreviewSegments == 128

\* BranchPipe.tsx: newError = isValid ? null : (error || "Unknown Error")
NewError(result) ==
  IF result.isValid THEN << >>
  ELSE IF result.error = "" THEN << "Unknown Error" >> ELSE << result.error >>

\* The dependencies [isValid, error] of the effect, from a result.
DepsOf(result) ==
  [isValid |-> result.isValid,
   error   |-> IF result.isValid THEN << >> ELSE << result.error >>]

BranchPipeEffect ==
  /\ effectPending
  /\ LET result == calculateNotchGeometry(params, PreviewSegments)
     IN  /\ errorMessage' = NewError(result)
         /\ deps' = << DepsOf(result) >>
  /\ effectPending' = FALSE
  /\ UNCHANGED << params, ret, writerVars, inputVars >>

\* The array handed to addPolyline once it has returned: the loop reads
\* p.x and p.y and pushes strings to this.parts.
PointsAfterAddPolyline(points, closed) == points

\* The array handed to generatePdf's drawing once it is done: forEach and
\* the line loop read the points.
PointsAfterDrawing(points) == points

\* Variant: the corners are put into the contour array itself.
ContourAfterFraming_InPlace(points) == FramedPipe(points)

\* The contour array once finalPoints is built: the spread copies it into a
\* new array literal.
ContourAfterFraming(points) == points

\* The array calculateUnrolledPoints returned, as download leaves it.  For
\* the hole finalPoints is that very array; for the pipe the writer is handed
\* the new one.
ContourAfterDownload(points, type, format) ==
  IF Len(points) = 0 THEN points
  ELSE IF format = "pdf" THEN PointsAfterDrawing(points)
  ELSE IF type = "pipe" THEN ContourAfterFraming(points)
  ELSE PointsAfterAddPolyline(ContourAfterFraming(points), TRUE)

\* What an export leaves behind: whether download was called, the alert
\* raised, the file saved and the contour array it worked on.
Exported(type, format, called, outcome) ==
  [op |-> "export", type |-> type, format |-> format, called |-> called,
   alert |-> outcome.alert, file |-> outcome.file,
   contour |-> IF called
               THEN LET points == PointsInFine(calculateUnrolledPoints(params, type))
                    IN  ContourAfterDownload(points, type, format)
               ELSE << >>]

\* Variant: the export buttons ignore the stored error.
TriggerExport_Ungated(type, format) ==
  /\ ~effectPending
  /\ ret.op = "none"
  /\ ret' = Exported(type, format, TRUE, download(params, type, format))
  /\ UNCHANGED << params, writerVars, storeVars, inputVars >>

\* Sidebar: triggerExport(type, format) with exportDisabled = !!errorMessage.
TriggerExport(type, format) ==
  /\ ~effectPending
  /\ ret.op = "none"
  /\ ret' = IF errorMessage # << >>
            THEN Exported(type, format, FALSE, [alert |-> << >>, file |-> << >>])
            ELSE Exported(type, format, TRUE, download(params, type, format))
  /\ UNCHANGED << params, writerVars, storeVars, inputVars >>

\* A branch whose bore radius d2/2 - thickness is zero, set aside the axis.
ZeroBore ==
  [BaseParams EXCEPT !.d1 = Num(3), !.d2 = Num(6), !.thickness = 3, !.offset = 2,
                     !.calcByID = FALSE]

\* The parameters exported: every placement of the unit wall thickness
\* under the base shaping, with a seam rotation, and the zero bore.
ExportParams ==
  {p \in FiniteParams :
     /\ p.thickness = 1
     /\ p.angle = 45 /\ p.weldingGap = 0
     /\ p.paddingD1 = << Mm(20) >> /\ p.paddingD2 = << Mm(20) >>}
  \cup {ZeroBore, [ZeroBore EXCEPT !.paddingD1 = << >>, !.paddingD2 = << >>]}

InitExport ==
  /\ params \in ExportParams
  /\ ret = NoCall
  /\ FreshWriter /\ FreshStore /\ NoInputs

NextExport ==
  \/ BranchPipeEffect
  \/ \E type \in {"pipe", "hole"}, format \in {"dxf", "pdf"} : TriggerExport(type, format)
  \/ \E type \in {"pipe", "hole"} : CallGenerateDXF(type)
  \/ Return

\* The kernel calls and the exports side by side, on the exported parameters
\* that measure by inner diameter from the seam, centred or far off the axis,
\* and on the zero bore.
FrameParams ==
  {p \in ExportParams :
     \/ p.calcByID /\ p.startAngle = 0 /\ p.offset \in {0, 7}
     \/ p.d1 = ZeroBore.d1 /\ p.thickness = ZeroBore.thickness}

InitFrame ==
  /\ params \in FrameParams
  /\ ret = NoCall
  /\ FreshWriter /\ FreshStore /\ NoInputs

NextFrame ==
  \/ BranchPipeEffect
  \/ \E type \in {"pipe", "hole"}, format \in {"dxf", "pdf"} : TriggerExport(type, format)
  \/ \E segments \in 1..MaxSegments : CallNotchGeometry(segments)
  \/ \E type \in {"pipe", "hole"} : CallUnrolledPoints(type)
  \/ \E type \in {"pipe", "hole"} : CallGenerateDXF(type)
  \/ Return

(***************************************************************************)
(* generatePdf on the contours of larger templates than the kernel's fixed *)
(* point reaches: a notch of width w and depth h standing pad above the    *)
(* sheet edge, starting at x0.  Millimetres.                               *)
(***************************************************************************)
Notch(x0, w, h, pad) ==
  << Pt(x0 * FinePerMm, (pad + h) * FinePerMm),
     Pt(x0 * FinePerMm + (w * FinePerMm) \div 2, pad * FinePerMm),
     Pt((x0 + w) * FinePerMm, (pad + h) * FinePerMm) >>

PdfContours ==
  {Notch(x0, w, h, pad) : x0 \in {0, 5}, w \in {10, 30, 60, 157},
                          h \in {0, 10, 25}, pad \in {0, 20, 35}}

\* generatePdf once calculateUnrolledPoints has handed it these points.
GeneratePdfFrom(points, type) ==
  /\ ret.op = "none"
  /\ ret' = [op |-> "pdf", type |-> type, points |-> points,
             result |-> PdfDocument(points, type)]
  /\ UNCHANGED << params, writerVars, storeVars, inputVars >>

NextPdf ==
  \/ \E points \in PdfContours, type \in {"pipe", "hole"} : GeneratePdfFrom(points, type)
  \/ Return

(***************************************************************************)
(* useParamStore, the Sidebar and DebouncedInput.  Two of the Sidebar's     *)
(* inputs are mounted, "d2" (min 1) and "offset" (min and max -+maxOffset), *)
(* with the calcByID checkbox.  Time passes in ticks of 250 ms.  A store    *)
(* update, the renders it causes and the effects of those renders other    *)
(* than BranchPipe's are one step.                                         *)
(***************************************************************************)
DebounceTicks == 2           \* setTimeout(..., 500)

\* The store's defaults, at a scale the kernel's fixed point holds: 2 mm,
\* 1 mm, wall 0.25 mm.
DEFAULT_PARAMS ==
  [d1 |-> Num(Mm(2)), d2 |-> Num(Mm(1)), thickness |-> 5, angle |-> 45, offset |-> 0,
   weldingGap |-> 0, startAngle |-> 0, paddingD1 |-> << Mm(20) >>,
   paddingD2 |-> << Mm(20) >>, calcByID |-> TRUE]

\* parseFloat of the texts an <input type="number"> can hold here, in ticks;
\* value.toString() of the values the store can hold.
ParseFloat(text) ==
  CASE text = "0"    -> Num(0)
    [] text = "0.5"  -> Num(10)
    [] text = "0.50" -> Num(10)
    [] text = "1"    -> Num(20)
    [] text = "2"    -> Num(40)
    [] OTHER         -> NaN

NumberToString(v) ==
  CASE v = 0  -> "0"
    [] v = 10 -> "0.5"
    [] v = 20 -> "1"
    [] v = 40 -> "2"

InputFields == {"d2", "offset"}

\* Sidebar: maxOffset, in half ticks.
maxOffset(p) ==
  LET R2_calc == IF p.calcByID THEN R2_outerOf(p) ELSE R2_innerOf(p)
      max     == R1Of(p) - (IF R2_calc < 0 THEN 0 ELSE R2_calc)
  IN  IF max < 0 THEN 0 ELSE max

\* The props value, min and max of an input (min and max in half ticks,
\* <<>> when not given).
ValueOf(p, field) == IF field = "d2" THEN p.d2.v ELSE p.offset
MinOf(p, field)   == IF field = "d2" THEN << Half(Mm(1)) >> ELSE << -maxOffset(p) >>
MaxOf(p, field)   == IF field = "d2" THEN << >> ELSE << maxOffset(p) >>

\* Variant: the lower limit is not looked at.
TimerRejects_NoMin(parsed, value, min, max) ==
  \/ isNaN(parsed)
  \/ parsed.v = value
  \/ max # << >> /\ Half(parsed.v) > max[1]

\* The returns of the timer callback before onChange(parsed).
TimerRejects(parsed, value, min, max) ==
  \/ isNaN(parsed)
  \/ parsed.v = value
  \/ min # << >> /\ Half(parsed.v) < min[1]
  \/ max # << >> /\ Half(parsed.v) > max[1]

\* The onChange prop of an input: updateParam, with the offset clamped.
OnChange(p, field, val) ==
  IF field = "d2" THEN [p EXCEPT !.d2 = Num(val)]
  ELSE LET hi      == maxOffset(p)
           capped  == IF Half(val) < hi THEN Half(val) ELSE hi
           clamped == IF -hi > capped THEN -hi ELSE capped
       IN  [p EXCEPT !.offset = clamped \div 2]

\* The first effect of DebouncedInput, run when value changed from old to new.
Sync(text, old, new) ==
  LET parsed == ParseFloat(text)
  IN  IF old = new THEN text
      ELSE IF ~isNaN(parsed) /\ parsed.v # new THEN NumberToString(new)
      ELSE IF isNaN(parsed) /\ text = "" THEN NumberToString(new)
      ELSE text

\* Variant: the effect depends on isValid alone.
RenderBranchPipe_ValidOnly(newParams) ==
  /\ effectPending' =
       (deps = << >> \/
        deps[1].isValid # calculateNotchGeometry(newParams, PreviewSegments).isValid)
  /\ UNCHANGED << errorMessage, deps >>

\* BranchPipe rendered with new parameters: its effect is due when
\* [isValid, error] differ from those it last ran with.
RenderBranchPipe(newParams) ==
  /\ effectPending' =
       (<< DepsOf(calculateNotchGeometry(newParams, PreviewSegments)) >> # deps)
  /\ UNCHANGED << errorMessage, deps >>

\* The Sidebar rendered after the store went from params to newParams: every
\* input gets a new onChange, so its second effect clears and sets its timer.
RenderSidebar(newParams) ==
  /\ inputValue' = [f \in InputFields |->
                      Sync(inputValue[f], ValueOf(params, f), ValueOf(newParams, f))]
  /\ timer' = [f \in InputFields |-> << DebounceTicks >>]

\* The inputs as mounted: the text of the value, each timer set.
MountedInputs ==
  /\ inputValue = [f \in InputFields |-> NumberToString(ValueOf(params, f))]
  /\ timer = [f \in InputFields |-> << DebounceTicks >>]
  /\ typing = [f \in InputFields |-> [quiet |-> DebounceTicks, commits |-> 0]]

D2Texts     == {"", "0.5", "1", "2"}
OffsetTexts == {"", "0", "0.5", "0.50", "1"}
TextsOf(field) == IF field = "d2" THEN D2Texts ELSE OffsetTexts

\* Variant: a keystroke leaves a pending timer running.
Type_KeepsTimer(field, text) ==
  /\ ~effectPending
  /\ text # inputValue[field]
  /\ inputValue' = [inputValue EXCEPT ![field] = text]
  /\ timer' = IF timer[field] = << >>
              THEN [timer EXCEPT ![field] = << DebounceTicks >>]
              ELSE timer
  /\ typing' = [typing EXCEPT ![field] = [quiet |-> 0, commits |-> 0]]
  /\ ret' = NoCall
  /\ UNCHANGED << params, writerVars, storeVars >>

\* onChange of the <input>: setInputValue(e.target.value); the second effect
\* clears the timer and sets a new one.
Type(field, text) ==
  /\ ~effectPending
  /\ text # inputValue[field]
  /\ inputValue' = [inputValue EXCEPT ![field] = text]
  /\ timer' = [timer EXCEPT ![field] = << DebounceTicks >>]
  /\ typing' = [typing EXCEPT ![field] = [quiet |-> 0, commits |-> 0]]
  /\ ret' = NoCall
  /\ UNCHANGED << params, writerVars, storeVars >>

\* 250 ms pass; a timer that is due fires first.
Tick ==
  /\ ~effectPending
  /\ \A f \in InputFields : timer[f] # << 0 >>
  /\ timer' = [f \in InputFields |->
                 IF timer[f] = << >> THEN << >> ELSE << timer[f][1] - 1 >>]
  /\ typing' = [f \in InputFields |->
                  [typing[f] EXCEPT !.quiet = IF @ < DebounceTicks THEN @ + 1 ELSE @]]
  /\ ret' = NoCall
  /\ UNCHANGED << params, inputValue, writerVars, storeVars >>

\* What a timer callback did, with what it read.
TimerFired(field, parsed, called) ==
  [op |-> "timer", field |-> field, called |-> called, parsed |-> parsed,
   text |-> inputValue[field], value |-> ValueOf(params, field),
   min |-> MinOf(params, field), max |-> MaxOf(params, field),
   quiet |-> typing[field].quiet]

\* The callback of setTimeout in DebouncedInput, and what onChange sets off.
Fire(field) ==
  /\ ~effectPending
  /\ timer[field] = << 0 >>
  /\ LET parsed == ParseFloat(inputValue[field])
     IN  IF TimerRejects(parsed, ValueOf(params, field), MinOf(params, field),
                         MaxOf(params, field))
         THEN /\ timer' = [timer EXCEPT ![field] = << >>]
              /\ ret' = TimerFired(field, parsed, FALSE)
              /\ UNCHANGED << params, inputValue, typing, storeVars >>
         ELSE LET newParams == OnChange(params, field, parsed.v)
              IN  /\ params' = newParams
                  /\ RenderSidebar(newParams)
                  /\ RenderBranchPipe(newParams)
                  /\ typing' = [typing EXCEPT ![field].commits = @ + 1]
                  /\ ret' = TimerFired(field, parsed, TRUE)
  /\ UNCHANGED writerVars

\* The checkbox: updateParam('calcByID', checked).
ToggleCalcByID ==
  /\ ~effectPending
  /\ LET newParams == [params EXCEPT !.calcByID = ~@]
     IN  /\ params' = newParams
         /\ RenderSidebar(newParams)
         /\ RenderBranchPipe(newParams)
  /\ ret' = NoCall
  /\ UNCHANGED << typing, writerVars >>

InitSidebar ==
  /\ params = DEFAULT_PARAMS
  /\ ret = NoCall
  /\ FreshWriter /\ FreshStore /\ MountedInputs

NextSidebar ==
  \/ BranchPipeEffect
  \/ \E field \in InputFields : \E text \in TextsOf(field) : Type(field, text)
  \/ Tick
  \/ \E field \in InputFields : Fire(field)
  \/ ToggleCalcByID

\* The values updateParam is called with, by key; updateParam stores what
\* it is given.
StoreKeys == {"d1", "d2", "thickness", "offset", "calcByID"}
StoreValues(key) ==
  CASE key = "d1"        -> {Num(Mm(1)), Num(Mm(2))}
    [] key = "d2"        -> {Num(0), Num(Mm(1)), Num(Mm(2))}
    [] key = "thickness" -> {0, 5}
    [] key = "offset"    -> {0, 10, 20}
    [] key = "calcByID"  -> BOOLEAN

\* updateParam: set((state) => ({ ...state, [key]: value })), and the render
\* of BranchPipe that the new state causes.
UpdateParam(key, value) ==
  /\ ~effectPending
  /\ params[key] # value
  /\ LET newParams == [params EXCEPT ![key] = value]
     IN  /\ params' = newParams
         /\ RenderBranchPipe(newParams)
  /\ ret' = NoCall
  /\ UNCHANGED << writerVars, inputVars >>

\* resetParams: set((state) => ({ ...state, ...DEFAULT_PARAMS })).
ResetParams ==
  /\ ~effectPending
  /\ params # DEFAULT_PARAMS
  /\ params' = DEFAULT_PARAMS
  /\ RenderBranchPipe(DEFAULT_PARAMS)
  /\ ret' = NoCall
  /\ UNCHANGED << writerVars, inputVars >>

InitStore ==
  /\ params = DEFAULT_PARAMS
  /\ ret = NoCall
  /\ FreshWriter /\ FreshStore /\ NoInputs

NextStore ==
  \/ BranchPipeEffect
  \/ \E key \in StoreKeys : \E value \in StoreValues(key) : UpdateParam(key, value)
  \/ ResetParams

\* safeSmall(val, epsilon) on values around the band, in units of 1e-6, for
\* the default epsilon and two larger ones.
SmallValues   == (-20..20) \cup {-ThetaScale, ThetaScale, -TanMax, TanMax}
EpsilonValues == {Epsilon, 5, 10}

CallSafeSmall(val, epsilon) ==
  /\ ret.op = "none"
  /\ ret' = [op |-> "safeSmall", val |-> val, epsilon |-> epsilon,
             result |-> safeSmall(val, epsilon)]
  /\ UNCHANGED << params, writerVars, storeVars, inputVars >>

NextSafeSmall ==
  \/ \E val \in SmallValues, epsilon \in EpsilonValues : CallSafeSmall(val, epsilon)
  \/ Return

\* The mesh is cheap to evaluate, so it is explored over every combination.
InitMesh ==
  /\ params \in FiniteParams \cup SpecialParams
  /\ ret = NoCall
  /\ FreshWriter /\ FreshStore /\ NoInputs

Spec         == Init /\ [][Next]_vars
SpecMesh     == InitMesh /\ [][NextMesh]_vars
SpecUnrolled == Init /\ [][NextUnrolled]_vars
SpecWriter   == InitWriter /\ [][NextWriter]_vars
SpecExport   == InitExport /\ [][NextExport]_vars
SpecPdf      == InitWriter /\ [][NextPdf]_vars
SpecSafeSmall == InitWriter /\ [][NextSafeSmall]_vars
SpecFrame    == InitFrame /\ [][NextFrame]_vars
SpecSidebar  == InitSidebar /\ [][NextSidebar]_vars
SpecStore    == InitStore /\ [][NextStore]_vars

(***************************************************************************)
(* Properties of calculateNotchGeometry (checked under SpecMesh).          *)
(***************************************************************************)
MeshReturned == ret.op = "mesh"

\* The guard let the diameters through.
GuardPassed == ~InvalidDiameters(params)

\* C1: a valid result of calculateNotchGeometry(params, segments) has exactly
\* 2*(segments+1) vertices and exactly 6*segments indices.
C1_GridSize ==
  (MeshReturned /\ ret.result.isValid) =>
     /\ Len(ret.result.vertices) = 2 * (ret.segments + 1)
     /\ Len(ret.result.indices) = 6 * ret.segments

C1_Witness ==
  /\ MeshReturned /\ FiniteDiameters(params) /\ ret.result.isValid /\ ret.segments = 3
  /\ Len(ret.result.vertices) = 8 /\ Len(ret.result.indices) = 18

\* d1 > 0, d2 > 0, 0 < angle <= 90, as finite numbers.
PositiveDiameters ==
  /\ FiniteDiameters(params) /\ params.d1.v > 0 /\ params.d2.v > 0
  /\ 0 < params.angle /\ params.angle <= 90

\* C2 as stated: d1 > 0, d2 > 0, 0 < angle <= 90 and |offset| < d1/2 are
\* enough for calculateNotchGeometry to return isValid = true.
C2_ValidWheneverOffsetInside ==
  (MeshReturned /\ PositiveDiameters /\ 2 * Abs(params.offset) < params.d1.v)
     => ret.result.isValid

\* C2 as amended: the branch must fit inside the main pipe beside the offset,
\* |offset| + |R2_calc| <= d1/2 with R2_calc the radius calcByID selects; then
\* calculateNotchGeometry returns isValid = true for every angle and segments.
BranchFitsInside ==
  Abs(Half(params.offset)) + Abs(MeshR2_calc(params)) <= R1Of(params)

C2_ValidWhenBranchFits ==
  (MeshReturned /\ PositiveDiameters /\ BranchFitsInside) => ret.result.isValid

C2_Witness ==
  /\ MeshReturned /\ PositiveDiameters /\ BranchFitsInside
  /\ params.offset # 0 /\ ret.segments = 4 /\ ret.result.isValid

\* C3: an invalid result has empty vertices, indices and uvs, no contour2D
\* and a non-empty error; a valid result has no error field.
C3_InvalidIsEmpty ==
  MeshReturned =>
     /\ ~ret.result.isValid =>
          /\ ret.result.vertices = <<>>
          /\ ret.result.indices = <<>>
          /\ ret.result.uvs = <<>>
          /\ "contour2D" \notin DOMAIN ret.result
          /\ "error" \in DOMAIN ret.result
          /\ ret.result.error # ""
     /\ ret.result.isValid => "error" \notin DOMAIN ret.result

C3_Witness ==
  /\ MeshReturned /\ FiniteDiameters(params) /\ ~ret.result.isValid
  /\ ret.result.error = ErrNoIntersect /\ ret.result.vertices = <<>>

\* d is missing, <= 0 or not finite.
BadDiameter(d) == ~IsFinite(d) \/ d.v <= 0

\* C4: when d1 or d2 is missing, <= 0 or non-finite (NaN, +Infinity,
\* -Infinity), calculateNotchGeometry returns isValid = false with the error
\* "Invalid Diameters.".
C4_BadDiameterRejected ==
  (MeshReturned /\ (BadDiameter(params.d1) \/ BadDiameter(params.d2))) =>
     /\ ~ret.result.isValid
     /\ ret.result.error = ErrInvalidDiameters

\* An error text that contains "do not intersect".
SaysDoNotIntersect(r) == "error" \in DOMAIN r /\ r.error \in {ErrNoIntersect}

\* Sample x of the pre-pass has term < -0.1.
SampleBelowTolerance(x, segments) ==
  IF FiniteDiameters(params)
  THEN (R1Of(params) * SinScale) * (R1Of(params) * SinScale)
         - (MeshR2_calc(params) * MathSin(AlphaOf(x, segments))
              + Half(params.offset) * SinScale) ^ 2 < -Tolerance
  ELSE MeshTermNonFinite(params, x) = "-Infinity"

\* C5: once the guard is passed, the result is invalid with an error that
\* contains "do not intersect" exactly when one of the segments+1 samples has
\* term < -0.1; then nothing of a mesh is returned, and the mesh fails in no
\* other way.
C5_NoIntersectionIffSampleBelow ==
  (MeshReturned /\ GuardPassed) =>
     /\ (~ret.result.isValid /\ SaysDoNotIntersect(ret.result))
          <=> (\E x \in 0..ret.segments : SampleBelowTolerance(x, ret.segments))
     /\ ~ret.result.isValid =>
          /\ SaysDoNotIntersect(ret.result)
          /\ ret.result.vertices = <<>> /\ ret.result.indices = <<>>
          /\ "contour2D" \notin DOMAIN ret.result

\* The first sample is inside the tolerance and a later one is not.
C5_Witness ==
  /\ MeshReturned /\ GuardPassed /\ FiniteDiameters(params)
  /\ ~SampleBelowTolerance(0, ret.segments)
  /\ \E x \in 1..ret.segments : SampleBelowTolerance(x, ret.segments)
  /\ ~ret.result.isValid /\ SaysDoNotIntersect(ret.result)

\* The vertices of column x's quad: x and x + 1 on the cut face (row 0),
\* the two below them on the far end (row 1).
QuadVertices(x, segments) == {x, x + 1, x + segments + 1, x + segments + 2}

\* C27: in a valid mesh every index is a vertex number, 0 <= index <
\* vertices.length, and column x contributes the triangles
\* (x, x+1, x+segments+2) and (x, x+segments+2, x+segments+1), which stay
\* within the column's own quad.
C27_IndicesStayInTheirQuad ==
  (MeshReturned /\ ret.result.isValid) =>
     LET idx == ret.result.indices
         n   == Len(ret.result.vertices)
         s   == ret.segments
     IN  /\ \A k \in 1..Len(idx) : idx[k] \in 0..(n - 1)
         /\ \A x \in 0..(s - 1) :
              /\ << idx[6 * x + 1], idx[6 * x + 2], idx[6 * x + 3] >>
                   = << x, x + 1, x + s + 2 >>
              /\ << idx[6 * x + 4], idx[6 * x + 5], idx[6 * x + 6] >>
                   = << x, x + s + 2, x + s + 1 >>
              /\ \A k \in (6 * x + 1)..(6 * x + 6) : idx[k] \in QuadVertices(x, s)
              /\ {x, x + 1} \subseteq 0..s
              /\ {x + s + 1, x + s + 2} \subseteq (s + 1)..(n - 1)

\* A valid mesh of several columns: the last quad reaches the last vertex.
C27_Witness ==
  /\ MeshReturned /\ FiniteDiameters(params) /\ ret.result.isValid
  /\ ret.segments = MaxSegments
  /\ ret.result.indices[Len(ret.result.indices) - 3] = Len(ret.result.vertices) - 1

(***************************************************************************)
(* Properties of calculateUnrolledPoints (checked under SpecUnrolled).     *)
(***************************************************************************)
UnrolledReturned(type) == ret.op = "unrolled" /\ ret.type = type

\* The padding that applies to a template, 0 when it is unset.
ApplicablePadding(type) ==
  LET opt == IF type = "pipe" THEN params.paddingD2 ELSE params.paddingD1
  IN  IF opt = <<>> THEN 0 ELSE Fine(opt[1])

\* The points as pushed by the sampling loop, before normalization.
RawPoints(type) ==
  IF type = "pipe" THEN PipeRawPoints(params, steps) ELSE HoleRawPoints(params, steps)

\* m is the least y of the points.
IsLeastY(points, m) ==
  /\ \E k \in 1..Len(points) : points[k].y = m
  /\ \A k \in 1..Len(points) : points[k].y >= m

\* C6: in every non-empty contour returned, the least y equals the applicable
\* padding, and every y is the raw y shifted by one and the same amount.
C6_MinYIsPadding ==
  \A type \in {"pipe", "hole"} :
    (UnrolledReturned(type) /\ ret.result # <<>>) =>
       LET raw == RawPoints(type)
       IN  /\ IsLeastY(ret.result, ApplicablePadding(type))
           /\ Len(ret.result) = Len(raw)
           /\ \A k \in 1..Len(raw) :
                ret.result[k].y - raw[k].y = ret.result[1].y - raw[1].y

\* A contour with a padding set whose raw minimum is not already the padding.
C6_Witness ==
  /\ UnrolledReturned("pipe") /\ PositiveDiameters /\ Len(ret.result) = steps + 1
  /\ params.paddingD2 # <<>>
  /\ ~IsLeastY(RawPoints("pipe"), ApplicablePadding("pipe"))
  /\ IsLeastY(ret.result, ApplicablePadding("pipe"))

\* Sample i of the loop was skipped.
SampleSkipped(type, i) ==
  IF type = "pipe" THEN PipeSkipped(PipeTerm(params, i, steps))
  ELSE HoleSkipped(HoleTerm(params, i, steps))

\* The sample indices the loop retained, in loop order.
Retained(type) ==
  SelectSeq([k \in 1..(steps + 1) |-> k - 1], LAMBDA i : ~SampleSkipped(type, i))

\* The x of sample i as the loop computes it.
SampleX(type, tg, i) ==
  IF type = "pipe" THEN PipeSample(params, tg, i, steps).x
  ELSE HoleSample(params, tg, i, steps).x

C8_BoundaryKept ==
  UnrolledReturned("pipe") =>
     Len(ret.result) =
       Cardinality({i \in 0..steps : PipeTerm(params, i, steps) >= -Tolerance})

(***************************************************************************)
(* Properties across the kernel and the DXF service (checked under Spec).  *)
(***************************************************************************)
\* C9: wherever the branch intersection term is computed (mesh, export pipe
\* contour, the pipe contour of generateDXF), the radius in the term is d2/2
\* when calcByID is true and d2/2 - thickness when it is false, and the drawn
\* radius is d2/2.
C9_RadiusFollowsCalcByID ==
  (ret.op \in {"mesh", "unrolled", "dxf"} /\ ret.radii # <<>>) =>
     /\ ret.radii[1].calc = IF params.calcByID THEN Half(params.d2.v) \div 2
                            ELSE Half(params.d2.v) \div 2 - Half(params.thickness)
     /\ ret.radii[1].draw = Half(params.d2.v) \div 2

(***************************************************************************)
(* Relations between calls of calculateNotchGeometry (checked under        *)
(* SpecMesh): the returned verdict against the verdict for neighbouring    *)
(* parameters.                                                             *)
(***************************************************************************)
\* The verdict for the current parameters with one field replaced.
ValidAtOffset(o, segments) ==
  calculateNotchGeometry([params EXCEPT !.offset = o], segments).isValid
ValidAtAngle(a, segments) ==
  calculateNotchGeometry([params EXCEPT !.angle = a], segments).isValid

\* C11: with the other parameters and segments fixed, an invalid mesh stays
\* invalid at every offset of larger magnitude and a valid mesh stays valid at
\* every offset of smaller magnitude.
C11_ValidityMonotoneInOffset ==
  MeshReturned =>
     \A o \in OffsetValues :
        /\ (~ret.result.isValid /\ Abs(o) > Abs(params.offset))
              => ~ValidAtOffset(o, ret.segments)
        /\ (ret.result.isValid /\ Abs(o) < Abs(params.offset))
              => ValidAtOffset(o, ret.segments)

\* Invalid here, valid nearer the axis, invalid farther out on either side.
C11_Witness ==
  /\ MeshReturned /\ PositiveDiameters /\ ~ret.result.isValid
  /\ SaysDoNotIntersect(ret.result)
  /\ \E o \in OffsetValues : Abs(o) < Abs(params.offset) /\ ValidAtOffset(o, ret.segments)
  /\ \E o \in OffsetValues : o < 0 /\ Abs(o) > Abs(params.offset)
                                /\ ~ValidAtOffset(o, ret.segments)

\* The whole-degree skew angles at which a sine or a tangent vanishes, and
\* the ones around them.
SkewAngles == {0, 1, 45, 89, 90, 91, 179, 180}

\* C12: parameters that are valid at angle = 90 are valid at every angle in
\* (0, 90], and the divisors sT and tT of the cut depth are never zero.
C12_ValidityIgnoresAngle ==
  (MeshReturned /\ GuardPassed) =>
     /\ (0 < params.angle /\ params.angle <= 90 /\ ValidAtAngle(90, ret.segments))
           => ret.result.isValid
     /\ \A a \in SkewAngles \cup {params.angle} :
           LET tg == ThetaTrig([params EXCEPT !.angle = a])
           IN  tg.sT # 0 /\ tg.tT # 0

\* The 1 degree case of the repository's test.
C12_Witness ==
  /\ MeshReturned /\ PositiveDiameters /\ params.angle = 1
  /\ ValidAtAngle(90, ret.segments) /\ ret.result.isValid
  /\ ThetaTrig(params).sT # 0 /\ ThetaTrig(params).tT # 0

(***************************************************************************)
(* Properties of DxfWriter (checked under SpecWriter).  A DXF string is    *)
(* read back: its records start at the groups with code 0.                 *)
(***************************************************************************)
StringReturned == ret.op = "createString"

RecordStarts(str) == SelectSeq([k \in 1..Len(str) |-> k], LAMBDA k : str[k].code = 0)
RecordNames(str)  ==
  LET at == RecordStarts(str)
  IN  [k \in 1..Len(at) |-> str[at[k]].text]

\* The number in the group with the given code among str[from..to], -1 when
\* there is no such group.
NumOf(str, from, to, code) ==
  IF \E k \in from..to : str[k].code = code
  THEN str[CHOOSE k \in from..to : str[k].code = code].num
  ELSE -1

\* The entities of a DXF string in order: a POLYLINE with its flag 70 and the
\* VERTEX records that follow it, a LINE with its colour 62 and its two ends.
ParsedEntities(str) ==
  LET at      == RecordStarts(str)
      n       == Len(at)
      name(k) == str[at[k]].text
      end(k)  == IF k = n THEN Len(str) ELSE at[k + 1] - 1
      pt(k, cx, cy) == Pt(NumOf(str, at[k], end(k), cx), NumOf(str, at[k], end(k), cy))
      run(k)  == Cardinality({j \in (k + 1)..n :
                                \A m \in (k + 1)..j : name(m) = "VERTEX"})
      heads   == SelectSeq([k \in 1..n |-> k], LAMBDA k : name(k) \in {"POLYLINE", "LINE"})
  IN  [e \in 1..Len(heads) |->
         IF name(heads[e]) = "LINE"
         THEN [kind |-> "LINE", flag |-> NumOf(str, at[heads[e]], end(heads[e]), 62),
               pts |-> << pt(heads[e], 10, 20), pt(heads[e], 11, 21) >>]
         ELSE [kind |-> "POLYLINE", flag |-> NumOf(str, at[heads[e]], end(heads[e]), 70),
               pts |-> [j \in 1..run(heads[e]) |-> pt(heads[e] + j, 10, 20)]]]

\* The calls that wrote something: addPolyline of no points writes nothing.
Emitted == SelectSeq(added, LAMBDA a : Len(a.pts) > 0)

\* A point as printed with four decimals.
Printed(p) == Pt(ToFixed4(p.x), ToFixed4(p.y))

\* C14: the string createString returns starts with SECTION once, ends with
\* ENDSEC then EOF once, lists the entities in the order they were added,
\* and every POLYLINE is followed by one or more VERTEX and then one SEQEND.
C14_DxfGrammar ==
  StringReturned =>
     LET names == RecordNames(ret.result)
         n     == Len(names)
         ents  == ParsedEntities(ret.result)
     IN  /\ n >= 3
         /\ names[1] = "SECTION" /\ names[n - 1] = "ENDSEC" /\ names[n] = "EOF"
         /\ \A i \in 2..n : names[i] # "SECTION"
         /\ \A i \in 1..(n - 2) : names[i] \notin {"ENDSEC", "EOF"}
         /\ \A i \in 1..(n - 1) :
              /\ names[i] = "POLYLINE" => names[i + 1] = "VERTEX"
              /\ names[i] = "VERTEX" => names[i + 1] \in {"VERTEX", "SEQEND"}
              /\ names[i + 1] = "VERTEX" => names[i] \in {"POLYLINE", "VERTEX"}
              /\ names[i + 1] = "SEQEND" => names[i] = "VERTEX"
         /\ Len(ents) = Len(Emitted)
         /\ \A k \in 1..Len(ents) :
              /\ ents[k].kind = Emitted[k].kind
              /\ ents[k].pts[1] = Printed(Emitted[k].pts[1])

\* A polyline, a line and a rectangle in one string.
C14_Witness ==
  /\ StringReturned /\ Len(Emitted) = 3
  /\ Emitted[1].kind = "POLYLINE" /\ Len(Emitted[1].pts) = 3
  /\ Emitted[2].kind = "LINE"
  /\ Emitted[3].kind = "POLYLINE" /\ Len(Emitted[3].pts) = 5
  /\ RecordNames(ret.result) =
       << "SECTION", "POLYLINE", "VERTEX", "VERTEX", "VERTEX", "SEQEND", "LINE",
          "POLYLINE", "VERTEX", "VERTEX", "VERTEX", "VERTEX", "VERTEX", "SEQEND",
          "ENDSEC", "EOF" >>

\* C15: createString leaves the writer as it was, returns the same string
\* when called again, and always returns every entity added so far followed
\* by a single footer, whether or not a string was made before.
C15_CreateStringIdempotent ==
  [][ret'.op = "createString" =>
        /\ parts' = parts
        /\ ret.op = "createString" => ret'.result = ret.result
        /\ LET names == RecordNames(ret'.result)
               n     == Len(names)
           IN  /\ names[n - 1] = "ENDSEC" /\ names[n] = "EOF"
               /\ \A i \in 1..(n - 2) : names[i] \notin {"ENDSEC", "EOF"}
               /\ Len(ParsedEntities(ret'.result)) = Len(Emitted')]_vars

\* A string made after an entity was added to a writer that had already
\* made a string.
C15_Witness ==
  /\ StringReturned
  /\ ret.afterString /\ Len(Emitted) >= 2
  /\ Len(ParsedEntities(ret.result)) = Len(Emitted)
  /\ parts[Len(parts)] # FooterPart

\* The Euclidean distance between a and b exceeds 0.001 mm.
ApartByMoreThanCloseTolerance(a, b) ==
  ~ (/\ Abs(a.x - b.x) <= CloseTolerance
     /\ Abs(a.y - b.y) <= CloseTolerance
     /\ (a.x - b.x) ^ 2 + (a.y - b.y) ^ 2 <= CloseTolerance ^ 2)

\* What the claim says addPolyline writes for a non-empty list.
ClaimedVertices(a) ==
  [k \in 1..Len(a.pts) |-> Printed(a.pts[k])]
    \o (IF a.flag = 1 /\ ApartByMoreThanCloseTolerance(a.pts[1], a.pts[Len(a.pts)])
        THEN << Printed(a.pts[1]) >> ELSE << >>)

\* C16: addPolyline of a non-empty list writes 70 as 1 when closed and 0
\* otherwise, one VERTEX per point in order, and one more VERTEX repeating
\* the first point exactly when closed and the ends are more than 0.001 apart.
C16_PolylineVertices ==
  StringReturned =>
     LET ents == ParsedEntities(ret.result)
     IN  /\ Len(ents) = Len(Emitted)
         /\ \A k \in 1..Len(ents) :
              Emitted[k].kind = "POLYLINE" =>
                 /\ ents[k].flag = Emitted[k].flag
                 /\ ents[k].pts = ClaimedVertices(Emitted[k])
                 /\ Len(ents[k].pts) \in {Len(Emitted[k].pts), Len(Emitted[k].pts) + 1}

\* Closed polylines whose ends are exactly 0.001 apart (no extra vertex) and
\* farther apart (one extra vertex), and an open one.
C16_Witness ==
  /\ StringReturned /\ Len(Emitted) = 3
  /\ \A k \in 1..3 : Emitted[k].kind = "POLYLINE" /\ Len(Emitted[k].pts) = 3
  /\ Emitted[1].flag = 1 /\ Emitted[2].flag = 1 /\ Emitted[3].flag = 0
  /\ Len(ParsedEntities(ret.result)[1].pts) = 3
  /\ Len(ParsedEntities(ret.result)[2].pts) = 4
  /\ Len(ParsedEntities(ret.result)[3].pts) = 3

\* The cut is centred: no offset, no welding gap, the seam at 0 degrees.
CentredCut ==
  params.offset = 0 /\ params.weldingGap = 0 /\ params.startAngle = 0

\* C20: with offset = 0, weldingGap = 0 and startAngle = 0 the branch contour
\* is mirror-symmetric: sample i is skipped exactly when sample steps - i
\* is, and the depths of the two are equal.
C20_BranchContourMirrorSymmetric ==
  (UnrolledReturned("pipe") /\ CentredCut) =>
     LET kept == Retained("pipe")
         n    == Len(ret.result)
     IN  /\ \A i \in 0..steps : SampleSkipped("pipe", i) = SampleSkipped("pipe", steps - i)
         /\ n = Len(kept)
         /\ \A k \in 1..n :
              /\ kept[n + 1 - k] = steps - kept[k]
              /\ ret.result[n + 1 - k].y = ret.result[k].y

\* A centred cut that loses some samples and whose depth varies.
C20_Witness ==
  /\ UnrolledReturned("pipe") /\ CentredCut /\ PositiveDiameters
  /\ Len(ret.result) > 1 /\ Len(ret.result) < steps + 1
  /\ \E k \in 1..Len(ret.result) : ret.result[k].y # ret.result[1].y

\* C26: when the mesh is valid for a segment count divisible by 4, the
\* branch contour retains all 361 samples, whatever the seam rotation.
C26_ValidMeshKeepsEverySample ==
  (UnrolledReturned("pipe") /\ PositiveDiameters
     /\ calculateNotchGeometry(params, MaxSegments).isValid)
    => Len(ret.result) = steps + 1

(***************************************************************************)
(* Properties of the hole contour (checked under Spec).                    *)
(***************************************************************************)
\* The term of the sentence at sample i of 360, in half ticks times
\* SinScale: R1 = d1/2, R2_inner = d2/2 - thickness, whatever calcByID is.
StatedHoleTerm(i) ==
  LET R1       == params.d1.v
      R2_inner == params.d2.v - 2 * params.thickness
      C2       == R2_inner * MathSin(i) + 2 * params.offset * SinScale
  IN  (R1 * SinScale) * (R1 * SinScale) - C2 * C2

StatedHoleKept == {i \in 0..steps : ~(StatedHoleTerm(i) < 0)}

\* C25: a sample of the hole contour is skipped exactly when its term
\* R1^2 - (R2_inner sin(alpha) + offset)^2 is negative, however little
\* (no band is clamped to 0), and the radius is d2/2 - thickness whatever
\* calcByID is; in calculateUnrolledPoints and in generateDXF alike.
C25_HoleSkipsEveryNegativeTerm ==
  /\ UnrolledReturned("hole") =>
       /\ \A i \in 0..steps : SampleSkipped("hole", i) <=> StatedHoleTerm(i) < 0
       /\ Len(ret.result) = Cardinality(StatedHoleKept)
  /\ (ret.op = "dxf" /\ ret.type = "hole") =>
       /\ ret.result.empty <=> StatedHoleKept = {}
       /\ ~ret.result.empty =>
            Len(ret.result.entities[1].vertices) = Cardinality(StatedHoleKept)

\* A hole contour that lost samples whose term lies in [-0.1, 0), with the
\* outer radius in force for the branch.
C25_Witness ==
  /\ UnrolledReturned("hole") /\ PositiveDiameters
  /\ params.calcByID /\ params.thickness > 0
  /\ \E i \in 0..steps : StatedHoleTerm(i) < 0 /\ StatedHoleTerm(i) >= -Tolerance
  /\ Len(ret.result) > 0 /\ Len(ret.result) < steps + 1

(***************************************************************************)
(* Properties of the export path (checked under SpecExport).               *)
(***************************************************************************)
ExportDone == ret.op = "export"

\* The preview mesh of the current parameters is valid; the contour of the
\* template being exported is empty.
PreviewMeshValid == calculateNotchGeometry(params, PreviewSegments).isValid
ContourEmpty     == calculateUnrolledPoints(params, ret.type) = << >>

\* The user is shown a message: the alert of download, or the error banner
\* of the Sidebar.
MessageShown == ret.alert # << >> \/ errorMessage # << >>

\* C13: when the contour is empty or the mesh is invalid, an export saves no
\* file and the user is shown a message; a file is saved only for parameters
\* whose mesh is valid and whose contour is non-empty.
C13_NoFileWithoutGeometry ==
  ExportDone =>
     /\ (ContourEmpty \/ ~PreviewMeshValid) => (ret.file = << >> /\ MessageShown)
     /\ ret.file # << >> => (PreviewMeshValid /\ ~ContourEmpty)

\* A valid mesh with an empty hole contour: download is called and alerts.
C13_Witness ==
  /\ ExportDone /\ ret.type = "hole" /\ ret.format = "dxf"
  /\ PreviewMeshValid /\ ContourEmpty
  /\ ret.called /\ ret.alert = << NoValidGeoAlert >> /\ ret.file = << >>

\* A DXF string for the pipe template was produced, by download or by
\* generateDXF.
PipeDxfSaved ==
  /\ ExportDone /\ ret.type = "pipe" /\ ret.format = "dxf" /\ ret.file # << >>
PipeDxfGenerated ==
  /\ ret.op = "dxf" /\ ret.type = "pipe" /\ ~ret.result.empty

\* The contour as a closed loop over the sheet edge: the corner below its
\* first point, the contour, the corner below its last point.
LoopOverSheetEdge(pts, n) ==
  /\ Len(pts) >= n + 2
  /\ \E first \in 1..2 :
       /\ pts[first].y = 0 /\ pts[first].x = pts[first + 1].x
       /\ pts[first + n + 1].y = 0 /\ pts[first + n + 1].x = pts[first + n].x
       /\ \A k \in (first + 1)..(first + n) : pts[k].y >= ToFixed4(ApplicablePadding("pipe"))
       /\ \E k \in (first + 1)..(first + n) : pts[k].y = ToFixed4(ApplicablePadding("pipe"))

\* C17: the pipe DXF export is one closed polyline (70 = 1) of the
\* normalized branch contour, its first and last points extended down to
\* y = 0, with no LINE and no second POLYLINE.
C17_PipeDxfIsOneClosedLoop ==
  /\ PipeDxfSaved =>
       LET ents == ParsedEntities(ret.file[1].content)
       IN  /\ Len(ents) = 1 /\ ents[1].kind = "POLYLINE" /\ ents[1].flag = 1
           /\ LoopOverSheetEdge(ents[1].pts, Len(calculateUnrolledPoints(params, "pipe")))
  /\ PipeDxfGenerated =>
       /\ Len(ret.result.entities) = 1
       /\ ret.result.entities[1].entity = "POLYLINE"
       /\ ret.result.entities[1].flag70 = 1
       /\ LoopOverSheetEdge(ret.result.entities[1].vertices,
                            Len(DxfCalculatePipe2D(params)))

HoleDxfSaved ==
  /\ ExportDone /\ ret.type = "hole" /\ ret.format = "dxf" /\ ret.file # << >>
HoleDxfGenerated ==
  /\ ret.op = "dxf" /\ ret.type = "hole" /\ ~ret.result.empty

\* The two centre lines of a bounding box, in red.
Upright(box) ==
  [kind |-> "LINE", flag |-> 1,
   pts |-> << Printed(Pt((box.minX + box.maxX) \div 2, box.minY)),
              Printed(Pt((box.minX + box.maxX) \div 2, box.maxY)) >>]
Level(box) ==
  [kind |-> "LINE", flag |-> 1,
   pts |-> << Printed(Pt(box.minX, (box.minY + box.maxY) \div 2)),
              Printed(Pt(box.maxX, (box.minY + box.maxY) \div 2)) >>]

\* C18: the hole DXF export is the normalized hole contour as one closed
\* polyline plus at least two LINE entities with colour 62 = 1, the vertical
\* and the horizontal centre line of the contour's bounding box.
C18_HoleDxfHasCentreLines ==
  /\ HoleDxfSaved =>
       LET ents == ParsedEntities(ret.file[1].content)
           box  == BoundingBox(PointsInFine(calculateUnrolledPoints(params, "hole")))
       IN  /\ Len(ents) >= 3
           /\ ents[1].kind = "POLYLINE" /\ ents[1].flag = 1
           /\ \E i, j \in 2..Len(ents) :
                i # j /\ ents[i] = Upright(box) /\ ents[j] = Level(box)
  /\ HoleDxfGenerated =>
       /\ ret.result.entities[1].entity = "POLYLINE"
       /\ ret.result.entities[1].flag70 = 1
       /\ Cardinality({k \in 1..Len(ret.result.entities) :
                         ret.result.entities[k].entity = "LINE"}) >= 2

(***************************************************************************)
(* Properties of the PDF layout (checked under SpecPdf).                   *)
(***************************************************************************)
PdfDrawn == ret.op = "pdf"

\* The extremes of the drawn points, stated without the loop that finds them.
LeastX(pts)    == CHOOSE v \in {pts[k].x : k \in 1..Len(pts)} : \A k \in 1..Len(pts) : v <= pts[k].x
GreatestX(pts) == CHOOSE v \in {pts[k].x : k \in 1..Len(pts)} : \A k \in 1..Len(pts) : v >= pts[k].x
GreatestY(pts) == CHOOSE v \in {pts[k].y : k \in 1..Len(pts)} : \A k \in 1..Len(pts) : v >= pts[k].y

\* Where the sentence puts the model point p on a page of height pageH.
OnPage(p, minX, pageH) ==
  [x |-> MarginFine(marginLeft) - minX + p.x,
   y |-> (pageH - MarginFine(marginBottom)) - p.y]

\* C19: generatePdf lays the contour out 1:1: the page is
\* (maxX - minX) + left + right margin wide and maxY + top + bottom margin
\* high, landscape exactly when it is wider than high, and the point (x, y)
\* is drawn at (marginLeft - minX + x, (pageH - marginBottom) - y).
C19_PdfLayoutOneToOne ==
  PdfDrawn =>
    LET pts   == ret.points
        minX  == LeastX(pts)
        pageW == (GreatestX(pts) - minX) + MarginFine(marginLeft) + MarginFine(marginRight)
        pageH == GreatestY(pts) + MarginFine(marginTop) + MarginFine(marginBottom)
    IN  /\ ret.result.format = << pageW, pageH >>
        /\ ret.result.orientation = "l" <=> pageW > pageH
        /\ ret.result.orientation \in {"l", "p"}
        /\ Len(ret.result.contour) = Len(pts) - 1
        /\ \A i \in 1..(Len(pts) - 1) :
             /\ ret.result.contour[i].from = OnPage(pts[i], minX, pageH)
             /\ ret.result.contour[i].to = OnPage(pts[i + 1], minX, pageH)

\* A landscape page of a contour that does not start at x = 0 and rises
\* above its padding.
C19_Witness ==
  /\ PdfDrawn /\ ret.result.orientation = "l"
  /\ LeastX(ret.points) > 0
  /\ ret.points[1].y > ret.points[2].y /\ ret.points[2].y > 0

(***************************************************************************)
(* Properties of safeSmall (checked under SpecSafeSmall).                  *)
(***************************************************************************)
SafeSmallReturned == ret.op = "safeSmall"

\* C21: safeSmall(v, epsilon) is v when |v| >= epsilon, +epsilon when
\* 0 <= v < epsilon and -epsilon when -epsilon < v < 0; so the result has
\* magnitude at least epsilon, the sign of v, and is never zero.
C21_SafeSmallKeepsSignAndMagnitude ==
  SafeSmallReturned =>
    LET v == ret.val
        e == ret.epsilon
        r == ret.result
    IN  /\ (v >= e \/ v <= -e) => r = v
        /\ (0 <= v /\ v < e) => r = e
        /\ (-e < v /\ v < 0) => r = -e
        /\ (r >= e \/ r <= -e) /\ r # 0
        /\ (v > 0 => r > 0) /\ (v < 0 => r < 0)

\* A negative value inside the band of a wider epsilon.
C21_Witness ==
  /\ SafeSmallReturned /\ ret.val < 0 /\ ret.val > -ret.epsilon
  /\ ret.result = -ret.epsilon

(***************************************************************************)
(* Properties of the calls' effects on their inputs (checked under         *)
(* SpecFrame).                                                             *)
(***************************************************************************)
\* The step is a call of the kernel, of generateDXF or of the export.
CallStep == ret.op = "none" /\ ret'.op \in {"mesh", "unrolled", "dxf", "export"}

\* The contour the export in ret worked on, computed afresh.
FreshContour ==
  LET returned == calculateUnrolledPoints(params, ret.type)
  IN  PointsInFine(returned)

PdfExported == ExportDone /\ ret.format = "pdf" /\ ret.file # << >>
PdfPage     == IF PdfDrawn THEN ret.result ELSE ret.file[1].content

\* A page point lies inside the margins of the page.
InsideMargins(p, page) ==
  /\ MarginFine(marginLeft) <= p.x
  /\ p.x <= page.format[1] - MarginFine(marginRight)
  /\ MarginFine(marginTop) <= p.y
  /\ p.y <= page.format[2] - MarginFine(marginBottom)

\* C30: every contour point drawn by generatePdf lies inside the margin box
\* of the page, and the sheet's bottom edge y = 0 is drawn at
\* pageY = pageHeight - marginBottom.
C30_PdfContourInsideMargins ==
  (PdfExported \/ PdfDrawn) =>
     LET page == PdfPage
     IN  /\ \A i \in 1..Len(page.contour) :
              /\ InsideMargins(page.contour[i].from, page)
              /\ InsideMargins(page.contour[i].to, page)
         /\ ret.type = "pipe" =>
              /\ page.outline[1].from.y = page.format[2] - MarginFine(marginBottom)
              /\ page.outline[1].to.y = page.format[2] - MarginFine(marginBottom)

\* A pipe template exported with its padding: the lowest contour point
\* stands above the bottom edge, the highest touches the top margin.
C30_Witness ==
  /\ PdfExported /\ ret.type = "pipe" /\ params.paddingD2 # << >>
  /\ Len(ret.file[1].content.contour) > 1
  /\ \E i \in 1..Len(ret.file[1].content.contour) :
       ret.file[1].content.contour[i].from.y = MarginFine(marginTop)
  /\ \A i \in 1..Len(ret.file[1].content.contour) :
       ret.file[1].content.contour[i].from.y
          < ret.file[1].content.format[2] - MarginFine(marginBottom)

(***************************************************************************)
(* Properties of DebouncedInput and the Sidebar (checked under             *)
(* SpecSidebar).                                                           *)
(***************************************************************************)
\* The last step was a timer callback; it called onChange.
TimerRan   == ret.op = "timer"
Committed  == TimerRan /\ ret.called

\* C23: onChange is invoked only when the text has stood unchanged for
\* 500 ms; what is committed is the text as last typed, and at most once
\* for each time the typing comes to rest.
C23_CommitOnlyAfterQuietPeriod ==
  /\ Committed =>
       /\ ret.quiet >= DebounceTicks
       /\ inputValue[ret.field] = ret.text
       /\ ValueOf(params, ret.field) = ParseFloat(ret.text).v
       /\ typing[ret.field].commits = 1
  /\ \A f \in InputFields : typing[f].commits <= 1

\* A commit of a text that is not the store's own spelling of the value.
C23_Witness ==
  /\ Committed /\ ret.field = "offset" /\ ret.text = "0.50"
  /\ ret.quiet >= DebounceTicks /\ params.offset = 10

\* The value the timer of input f would push is one of those the sentence
\* excludes: not a number, the external value, below min or above max.
Excluded(f) ==
  LET parsed == ParseFloat(inputValue[f])
  IN  \/ parsed.kind # "number"
      \/ parsed.v = ValueOf(params, f)
      \/ MinOf(params, f) # << >> /\ Half(parsed.v) < MinOf(params, f)[1]
      \/ MaxOf(params, f) # << >> /\ Half(parsed.v) > MaxOf(params, f)[1]

\* C24: a timer callback never calls onChange with NaN (the empty text
\* included), with the current external value, or with a value below min or
\* above max; in those cases the store and the text stay as they are.
C24_NoCommitOfExcludedValue ==
  [][\A f \in InputFields :
       (timer[f] = << 0 >> /\ ret'.op = "timer" /\ ret'.field = f) =>
          /\ Excluded(f) =>
               (~ret'.called /\ params' = params /\ inputValue' = inputValue)
          /\ ret'.called =>
               (~Excluded(f) /\ ValueOf(params', f) = ParseFloat(inputValue[f]).v)]_vars

\* A diameter typed below its minimum was turned down, and is still shown.
C24_Witness ==
  /\ TimerRan /\ ~ret.called /\ ret.field = "d2"
  /\ ret.text = "0.5" /\ inputValue["d2"] = "0.5"
  /\ Half(ret.parsed.v) < ret.min[1] /\ params.d2.v # ret.parsed.v

\* C29: in every state of the store reached through the Sidebar's inputs
\* the stored offset is within the limit computed from the stored values,
\* |offset| <= maxOffset.
C29_OffsetWithinMaxOffset ==
  Abs(Half(params.offset)) <= maxOffset(params)

(***************************************************************************)
(* Properties of the store and BranchPipe's effect (checked under          *)
(* SpecStore).                                                             *)
(***************************************************************************)
\* The message the sentence states for the stored parameters: none when the
\* preview mesh is valid, else the error of the result.
StatedMessage ==
  LET result == calculateNotchGeometry(params, PreviewSegments)
  IN  IF result.isValid THEN << >> ELSE << result.error >>

\* C28: after any sequence of parameter updates, once BranchPipe's effect
\* has run for the latest parameters, errorMessage is null exactly when
\* calculateNotchGeometry(params, 128) is valid and is the result's error
\* otherwise; the effect's own write to the store makes no further effect
\* due, and an effect that finds the message already right changes nothing.
C28_ErrorMessageFollowsGeometry ==
  /\ [](~effectPending => errorMessage = StatedMessage)
  /\ [][effectPending => (~effectPending' /\ params' = params)]_vars
  /\ [][(effectPending /\ errorMessage = StatedMessage)
          => errorMessage' = errorMessage]_vars

\* The effect has run for an offset that carries the branch off the main
\* pipe, and the store holds the kernel's error.
C28_Witness ==
  /\ ~effectPending
  /\ errorMessage = << ErrNoIntersect >>
  /\ deps = << [isValid |-> FALSE, error |-> << ErrNoIntersect >>] >>
  /\ params.offset = 20 /\ params.d2 = Num(Mm(1))

=============================================================================
